---------------------------- MODULE Spec2Model ----------------------------
(***************************************************************************)
(* Model of the terminal emulation engine TermCoreModule                   *)
(* (src/unnamed/part_001): the sequence parser, the command interpreter,   *)
(* the screen buffer, the scrollback store, the session recorder and the   *)
(* replay driver.                                                          *)
(*                                                                         *)
(* JavaScript arrays are modelled as functions whose domain is the set of  *)
(* integer keys that hold a value: a key outside the domain reads as       *)
(* `undefined`.  Text is a sequence of UTF-16 code units (numbers), a      *)
(* write's payload a sequence of bytes.  A TypeError raised inside a       *)
(* handler is the flag `threw`: the handler stops where the error is       *)
(* raised and everything it changed before stays changed.                  *)
(*                                                                         *)
(* The constructor's grid is 24 x 80; the model's engine is constructed    *)
(* with InitRows x InitCols, every operation being parametric in rows and  *)
(* cols.  The configuration (this.config) is a public field: Init draws    *)
(* maxScrollback and maxReplaySize from bounded sets.                      *)
(***************************************************************************)
EXTENDS Integers, Sequences, FiniteSets, TLC

VARIABLES
    terminalState,  \* this.terminalState
    screen,         \* this.screen: row index -> row (column index -> cell)
    scrollback,     \* this.scrollback: sequence of retired rows
    attributes,     \* this.attributes: the pen
    savedCursor,    \* this.savedCursor (undefined until the first save)
    config,         \* this.config
    sessionLog,     \* this.sessionLog
    replayData,     \* this.replayData
    replayIndex,    \* this.replayIndex (undefined until the first startReplay)
    isReplaying,    \* this.isReplaying
    nops,           \* number of calls made so far (the recorder's clock)
    budget,         \* number of calls the client may still make
    lastOp,         \* the last call: its name, arguments and outcome
    hist            \* history of the session, for the claims that need it

vars == <<terminalState, screen, scrollback, attributes, savedCursor, config,
          sessionLog, replayData, replayIndex, isReplaying, nops, budget,
          lastOp, hist>>

----------------------------------------------------------------------------
(* Bounds of the model *)

InitRows == 3
InitCols == 3
MaxOps == 3
MaxReplayOps == 5
MaxCap == 2
MaxTextLen == 4

(* Program constants *)

TabSize == 8
DefaultForeground == 7
DefaultBackground == 0

----------------------------------------------------------------------------
(* Characters: UTF-16 code units *)

CodeOf ==
    [ESC |-> 27, CR |-> 13, LF |-> 10, TAB |-> 9, BS |-> 8, BEL |-> 7,
     NUL |-> 0, SP |-> 32, LBRACK |-> 91, RBRACK |-> 93, LPAREN |-> 40,
     BACKSLASH |-> 92, SEMI |-> 59, ZERO |-> 48, NINE |-> 57,
     A |-> 65, B |-> 66, C |-> 67, D |-> 68, E |-> 69, H |-> 72, J |-> 74,
     K |-> 75, M |-> 77, X |-> 88, Y |-> 89, Z |-> 90,
     h |-> 104, l |-> 108, m |-> 109, r |-> 114, s |-> 115, u |-> 117,
     SEVEN |-> 55, EIGHT |-> 56, NBSP |-> 160, EACUTE |-> 233,
     REPLACEMENT |-> 65533]

Ch(name) == CodeOf[name]

\* text[i] of a JavaScript string, i zero-based; NoChar stands for undefined
NoChar == 0 - 1
At(text, i) == IF i >= 0 /\ i < Len(text) THEN text[i + 1] ELSE NoChar

Min(a, b) == IF a < b THEN a ELSE b
Max(a, b) == IF a > b THEN a ELSE b

\* new TextDecoder().decode(data): UTF-8 bytes to code units.  One-byte and
\* two-byte forms are decoded; any other byte is malformed input and decodes
\* to U+FFFD (the payload alphabet holds no three- or four-byte form).
RECURSIVE Decode(_)
Decode(data) ==
    IF data = <<>> THEN <<>>
    ELSE LET b == Head(data) IN
         IF b < 128 THEN <<b>> \o Decode(Tail(data))
         ELSE IF b >= 194 /\ b <= 223 /\ Len(data) >= 2
                 /\ data[2] >= 128 /\ data[2] <= 191
              THEN <<(b - 192) * 64 + (data[2] - 128)>> \o Decode(Tail(Tail(data)))
              ELSE <<Ch("REPLACEMENT")>> \o Decode(Tail(data))

----------------------------------------------------------------------------
(* JavaScript arrays *)

EmptyArray == [i \in {} |-> 0]
Has(a, i) == i \in DOMAIN a
\* a[i] = v
Put(a, i, v) == [j \in (DOMAIN a) \cup {i} |-> IF j = i THEN v ELSE a[j]]
\* a[i] = undefined
Unset(a, i) == [j \in (DOMAIN a) \ {i} |-> a[j]]
\* a[i] = b[k], where b[k] may be undefined
Copy(a, i, b, k) == IF Has(b, k) THEN Put(a, i, b[k]) ELSE Unset(a, i)
\* a.length: one more than the largest array index
RECURSIVE MaxOf(_)
MaxOf(S) == LET x == CHOOSE y \in S : TRUE
            IN IF S = {x} THEN x ELSE Max(x, MaxOf(S \ {x}))
Length(a) == LET idx == {i \in DOMAIN a : i >= 0}
             IN IF idx = {} THEN 0 ELSE MaxOf(idx) + 1
\* a.slice(0, n): array indices only, other properties are dropped; a
\* negative n counts from the end
Slice(a, n) ==
    LET end == IF n < 0 THEN Max(Length(a) + n, 0) ELSE Min(n, Length(a))
    IN [j \in {i \in DOMAIN a : i >= 0 /\ i < end} |-> a[j]]
\* seq.slice(-k) of a sequence; slice truncates a fractional start toward
\* zero, and slice(-0) is slice(0): the whole sequence
SliceLast(seq, k) ==
    IF k = 0 \/ k >= Len(seq) THEN seq
    ELSE SubSeq(seq, Len(seq) - k + 1, Len(seq))

----------------------------------------------------------------------------
(* Cells and the pen *)

DefaultAttributes ==
    [bold |-> FALSE, dim |-> FALSE, italic |-> FALSE, underline |-> FALSE,
     blink |-> FALSE, reverse |-> FALSE, strikethrough |-> FALSE,
     foreground |-> DefaultForeground, background |-> DefaultBackground]

Cell(char, attrs) == [char |-> char, attributes |-> attrs]

\* a row of cols blank cells carrying the pen
BlankRow(cols, attrs) == [col \in 0 .. (cols - 1) |-> Cell(Ch("SP"), attrs)]

\* an entry of this.scrollback: a row or undefined.  `at` is the key of
\* this.screen that still holds the very same row array (NoAlias if none):
\* writing a cell of that screen row in place writes the scrollback row too.
NoAlias == 0 - 1000
Retired(row, at) == [def |-> TRUE, row |-> row, at |-> at]
UndefinedRow == [def |-> FALSE, row |-> EmptyArray, at |-> NoAlias]

----------------------------------------------------------------------------
(* The engine as a value: the fields the parser and the interpreter read   *)
(* and write, with `threw` (a TypeError was raised) and `updates` (calls   *)
(* of onUpdate made by the current call).  `retired` is history: every row *)
(* ever pushed to the scrollback, as it was when pushed.                   *)

Engine ==
    [ts |-> terminalState, screen |-> screen, scrollback |-> scrollback,
     attributes |-> attributes, savedCursor |-> savedCursor,
     config |-> config, threw |-> FALSE, updates |-> 0,
     retired |-> hist.retired]

Throw(e) == [e EXCEPT !.threw = TRUE]

\* this.screen[y] = <a new array>: scrollback rows that were this array are
\* no longer on the screen
ReplaceRows(e, S, row) ==
    [e EXCEPT
       !.screen = [j \in (DOMAIN e.screen) \cup S |->
                     IF j \in S THEN row ELSE e.screen[j]],
       !.scrollback = [k \in DOMAIN e.scrollback |->
                     IF e.scrollback[k].at \in S
                     THEN [e.scrollback[k] EXCEPT !.at = NoAlias]
                     ELSE e.scrollback[k]]]

\* this.screen[y][x] = cell for every x in S, in place: a scrollback entry
\* that is the same array sees the write.  this.screen[y] must be defined.
SetCells(e, y, S, cell) ==
    LET old == e.screen[y]
        new == [j \in (DOMAIN old) \cup S |-> IF j \in S THEN cell ELSE old[j]]
    IN [e EXCEPT
          !.screen = Put(e.screen, y, new),
          !.scrollback = [k \in DOMAIN e.scrollback |->
                     IF e.scrollback[k].at = y
                     THEN [e.scrollback[k] EXCEPT !.row = new]
                     ELSE e.scrollback[k]]]

PenCell(e) == Cell(Ch("SP"), e.attributes)

\* clearRow without its loop over the columns
clearRow_Empty(e, row) == ReplaceRows(e, {row}, EmptyArray)

clearRow(e, row) ==
    ReplaceRows(e, {row}, BlankRow(e.ts.cols, e.attributes))

\* the push and the trim of scrollUp
PushScrollback(sb, entry, maxScrollback) ==
    LET pushed == Append(sb, entry)
    IN IF Len(pushed) > maxScrollback
       THEN SliceLast(pushed, maxScrollback \div 2)
       ELSE pushed

\* where the row array held at screen key j is held after the rows of
\* [top, bottom] moved up by one and the bottom row was replaced
AliasAfterUp(j, top, bottom) ==
    IF j = NoAlias THEN NoAlias
    ELSE IF top < bottom /\ j > top /\ j <= bottom THEN j - 1
    ELSE IF top < bottom /\ j = top THEN NoAlias
    ELSE IF j = bottom THEN NoAlias
    ELSE j

RECURSIVE ShiftUp(_, _, _)
ShiftUp(scr, row, bottom) ==
    IF row < bottom THEN ShiftUp(Copy(scr, row, scr, row + 1), row + 1, bottom)
    ELSE scr

scrollUp(e) ==
    LET top == e.ts.scrollTop
        bottom == e.ts.scrollBottom
        topLine == IF Has(e.screen, top) THEN Retired(e.screen[top], top)
                   ELSE UndefinedRow
        sb == PushScrollback(e.scrollback, topLine, e.config.maxScrollback)
        shifted == ShiftUp(e.screen, top, bottom)
    IN [e EXCEPT
          !.scrollback = [k \in DOMAIN sb |->
                     [sb[k] EXCEPT !.at = AliasAfterUp(sb[k].at, top, bottom)]],
          !.screen = Put(shifted, bottom, BlankRow(e.ts.cols, e.attributes)),
          !.retired = Append(e.retired, [topLine EXCEPT !.at = NoAlias])]

AliasAfterDown(j, top, bottom) ==
    IF j = NoAlias THEN NoAlias
    ELSE IF top < bottom /\ j >= top /\ j < bottom THEN j + 1
    ELSE IF top < bottom /\ j = bottom THEN NoAlias
    ELSE IF j = top THEN NoAlias
    ELSE j

RECURSIVE ShiftDown(_, _, _)
ShiftDown(scr, row, top) ==
    IF row > top THEN ShiftDown(Copy(scr, row, scr, row - 1), row - 1, top)
    ELSE scr

scrollDown(e) ==
    LET top == e.ts.scrollTop
        bottom == e.ts.scrollBottom
        shifted == ShiftDown(e.screen, bottom, top)
    IN [e EXCEPT
          !.scrollback = [k \in DOMAIN e.scrollback |->
                     [e.scrollback[k] EXCEPT
                        !.at = AliasAfterDown(e.scrollback[k].at, top, bottom)]],
          !.screen = Put(shifted, top, BlankRow(e.ts.cols, e.attributes))]

\* lineFeed scrolling one row before the bottom of the region
lineFeed_Early(e) ==
    IF e.ts.cursorY >= e.ts.scrollBottom - 1 THEN scrollUp(e)
    ELSE [e EXCEPT !.ts.cursorY = e.ts.cursorY + 1]

lineFeed(e) ==
    IF e.ts.cursorY = e.ts.scrollBottom THEN scrollUp(e)
    ELSE [e EXCEPT !.ts.cursorY = e.ts.cursorY + 1]

index(e) ==
    IF e.ts.cursorY = e.ts.scrollBottom THEN scrollUp(e)
    ELSE [e EXCEPT !.ts.cursorY = e.ts.cursorY + 1]

nextLine(e) == index([e EXCEPT !.ts.cursorX = 0])

reverseIndex(e) ==
    IF e.ts.cursorY = e.ts.scrollTop THEN scrollDown(e)
    ELSE [e EXCEPT !.ts.cursorY = e.ts.cursorY - 1]

\* the cell write of insertCharacter and the step to the right
PlaceCharacter(e, char) ==
    LET y == e.ts.cursorY
        x == e.ts.cursorX
    IN IF ~Has(e.screen, y) THEN Throw(e)
       ELSE [SetCells(e, y, {x}, Cell(char, e.attributes))
               EXCEPT !.ts.cursorX = x + 1]

insertCharacter(e, char) ==
    PlaceCharacter(IF e.ts.cursorX >= e.ts.cols
                   THEN IF e.ts.wraparound
                        THEN lineFeed([e EXCEPT !.ts.cursorX = 0])
                        ELSE [e EXCEPT !.ts.cursorX = e.ts.cols - 1]
                   ELSE e,
                   char)

tab(e) ==
    LET tabSize == e.config.tabSize
        nextTabStop == ((e.ts.cursorX + tabSize) \div tabSize) * tabSize
    IN [e EXCEPT !.ts.cursorX = Min(nextTabStop, e.ts.cols - 1)]

backspace(e) ==
    IF e.ts.cursorX > 0 THEN [e EXCEPT !.ts.cursorX = e.ts.cursorX - 1] ELSE e

\* cursorUp without the clamp at scrollTop
cursorUp_NoClamp(e, count) ==
    [e EXCEPT !.ts.cursorY = e.ts.cursorY - count]

cursorUp(e, count) ==
    [e EXCEPT !.ts.cursorY = Max(e.ts.scrollTop, e.ts.cursorY - count)]

cursorDown(e, count) ==
    [e EXCEPT !.ts.cursorY = Min(e.ts.scrollBottom, e.ts.cursorY + count)]

cursorRight(e, count) ==
    [e EXCEPT !.ts.cursorX = Min(e.ts.cols - 1, e.ts.cursorX + count)]

cursorLeft(e, count) ==
    [e EXCEPT !.ts.cursorX = Max(0, e.ts.cursorX - count)]

setCursorPosition(e, row, col) ==
    [e EXCEPT !.ts.cursorY = Max(0, Min(e.ts.rows - 1, row - 1)),
              !.ts.cursorX = Max(0, Min(e.ts.cols - 1, col - 1))]

----------------------------------------------------------------------------
(* Erase, rendition, scroll region, modes, saved cursor *)

eraseLine(e, mode) ==
    LET row == e.ts.cursorY
        toEnd == e.ts.cursorX .. (e.ts.cols - 1)
        toCursor == 0 .. e.ts.cursorX
    IN CASE mode = 0 ->
              IF toEnd = {} THEN e
              ELSE IF ~Has(e.screen, row) THEN Throw(e)
              ELSE SetCells(e, row, toEnd, PenCell(e))
         [] mode = 1 ->
              IF toCursor = {} THEN e
              ELSE IF ~Has(e.screen, row) THEN Throw(e)
              ELSE SetCells(e, row, toCursor, PenCell(e))
         [] mode = 2 -> clearRow(e, row)
         [] OTHER -> e

eraseDisplay(e, mode) ==
    CASE mode = 0 ->
           LET e1 == eraseLine(e, 0)
           IN IF e1.threw THEN e1
              ELSE ReplaceRows(e1, (e.ts.cursorY + 1) .. (e.ts.rows - 1),
                               BlankRow(e.ts.cols, e.attributes))
      [] mode = 1 ->
           eraseLine(ReplaceRows(e, 0 .. (e.ts.cursorY - 1),
                                 BlankRow(e.ts.cols, e.attributes)), 1)
      [] mode = 2 ->
           setCursorPosition(
               ReplaceRows(e, 0 .. (e.ts.rows - 1),
                           BlankRow(e.ts.cols, e.attributes)), 1, 1)
      [] OTHER -> e

\* code 0 clearing the flags and leaving the colours
ApplyRendition_KeepsColours(a, param) ==
    CASE param = 0 ->
           [DefaultAttributes EXCEPT !.foreground = a.foreground,
                                     !.background = a.background]
      [] param = 1 -> [a EXCEPT !.bold = TRUE]
      [] param = 2 -> [a EXCEPT !.dim = TRUE]
      [] param = 3 -> [a EXCEPT !.italic = TRUE]
      [] param = 4 -> [a EXCEPT !.underline = TRUE]
      [] param = 5 -> [a EXCEPT !.blink = TRUE]
      [] param = 7 -> [a EXCEPT !.reverse = TRUE]
      [] param = 9 -> [a EXCEPT !.strikethrough = TRUE]
      [] param = 22 -> [a EXCEPT !.bold = FALSE, !.dim = FALSE]
      [] param = 23 -> [a EXCEPT !.italic = FALSE]
      [] param = 24 -> [a EXCEPT !.underline = FALSE]
      [] param = 25 -> [a EXCEPT !.blink = FALSE]
      [] param = 27 -> [a EXCEPT !.reverse = FALSE]
      [] param = 29 -> [a EXCEPT !.strikethrough = FALSE]
      [] param >= 30 /\ param <= 37 -> [a EXCEPT !.foreground = param - 30]
      [] param >= 40 /\ param <= 47 -> [a EXCEPT !.background = param - 40]
      [] OTHER -> a

\* one code of CSI m applied to the pen
ApplyRendition(a, param) ==
    CASE param = 0 -> DefaultAttributes
      [] param = 1 -> [a EXCEPT !.bold = TRUE]
      [] param = 2 -> [a EXCEPT !.dim = TRUE]
      [] param = 3 -> [a EXCEPT !.italic = TRUE]
      [] param = 4 -> [a EXCEPT !.underline = TRUE]
      [] param = 5 -> [a EXCEPT !.blink = TRUE]
      [] param = 7 -> [a EXCEPT !.reverse = TRUE]
      [] param = 9 -> [a EXCEPT !.strikethrough = TRUE]
      [] param = 22 -> [a EXCEPT !.bold = FALSE, !.dim = FALSE]
      [] param = 23 -> [a EXCEPT !.italic = FALSE]
      [] param = 24 -> [a EXCEPT !.underline = FALSE]
      [] param = 25 -> [a EXCEPT !.blink = FALSE]
      [] param = 27 -> [a EXCEPT !.reverse = FALSE]
      [] param = 29 -> [a EXCEPT !.strikethrough = FALSE]
      [] param >= 30 /\ param <= 37 -> [a EXCEPT !.foreground = param - 30]
      [] param >= 40 /\ param <= 47 -> [a EXCEPT !.background = param - 40]
      [] OTHER -> a

RECURSIVE ApplyRenditions(_, _)
ApplyRenditions(a, params) ==
    IF params = <<>> THEN a
    ELSE ApplyRenditions(ApplyRendition(a, Head(params)), Tail(params))

\* the rendition with the cells that were written under the pen holding
\* the pen itself, not a copy: they follow the change
RestyleCells(e, new) ==
    [e EXCEPT
       !.attributes = new,
       !.screen = [r \in DOMAIN e.screen |->
                     [c \in DOMAIN e.screen[r] |->
                        IF e.screen[r][c].attributes = e.attributes
                        THEN [e.screen[r][c] EXCEPT !.attributes = new]
                        ELSE e.screen[r][c]]]]

setGraphicsRendition_Shared(e, params) ==
    RestyleCells(e, ApplyRenditions(e.attributes,
                        IF Len(params) = 0 THEN <<0>> ELSE params))

setGraphicsRendition(e, params) ==
    [e EXCEPT !.attributes =
        ApplyRenditions(e.attributes, IF Len(params) = 0 THEN <<0>> ELSE params)]

setScrollRegion(e, top, bottom) ==
    setCursorPosition(
        [e EXCEPT !.ts.scrollTop = Max(0, top - 1),
                  !.ts.scrollBottom = Min(e.ts.rows - 1, bottom - 1)], 1, 1)

\* only mode 1 (application cursor keys) has an effect
setMode(e, params, enable) ==
    IF \E k \in 1 .. Len(params) : params[k] = 1
    THEN [e EXCEPT !.ts.applicationCursor = enable]
    ELSE e

saveCursor(e) ==
    [e EXCEPT !.savedCursor =
        [set |-> TRUE, x |-> e.ts.cursorX, y |-> e.ts.cursorY,
         attributes |-> e.attributes]]

\* restoreCursor consuming the snapshot it reads
restoreCursor_Consumes(e) ==
    IF e.savedCursor.set
    THEN [e EXCEPT !.ts.cursorX = e.savedCursor.x,
                   !.ts.cursorY = e.savedCursor.y,
                   !.attributes = e.savedCursor.attributes,
                   !.savedCursor.set = FALSE]
    ELSE e

restoreCursor(e) ==
    IF e.savedCursor.set
    THEN [e EXCEPT !.ts.cursorX = e.savedCursor.x,
                   !.ts.cursorY = e.savedCursor.y,
                   !.attributes = e.savedCursor.attributes]
    ELSE e

updateDisplay(e) == [e EXCEPT !.updates = e.updates + 1]

----------------------------------------------------------------------------
(* The sequence parser.  Indices are zero-based as in the source.          *)

IsParamChar(c) == (c >= Ch("ZERO") /\ c <= Ch("NINE")) \/ c = Ch("SEMI")

\* paramString.split(';').map(p => parseInt(p) || 0): `done` are the
\* parameters closed by a ';', `cur` the value of the digits read since
RECURSIVE SplitParams(_, _, _)
SplitParams(chars, done, cur) ==
    IF chars = <<>> THEN Append(done, cur)
    ELSE IF Head(chars) = Ch("SEMI")
         THEN SplitParams(Tail(chars), Append(done, cur), 0)
         ELSE SplitParams(Tail(chars), done,
                          cur * 10 + (Head(chars) - Ch("ZERO")))

ParseParams(paramString) ==
    IF paramString = <<>> THEN <<>> ELSE SplitParams(paramString, <<>>, 0)

\* params[k] || default
Param(params, k, default) ==
    IF k < Len(params) /\ params[k + 1] # 0 THEN params[k + 1] ELSE default

\* the index of the first character at or after i that is no parameter
\* character (text.length if there is none)
RECURSIVE ParamsEnd(_, _)
ParamsEnd(text, i) ==
    IF i < Len(text) /\ IsParamChar(At(text, i)) THEN ParamsEnd(text, i + 1)
    ELSE i

CSICommand(e, command, params) ==
    CASE command = Ch("A") -> cursorUp(e, Param(params, 0, 1))
      [] command = Ch("B") -> cursorDown(e, Param(params, 0, 1))
      [] command = Ch("C") -> cursorRight(e, Param(params, 0, 1))
      [] command = Ch("D") -> cursorLeft(e, Param(params, 0, 1))
      [] command = Ch("H") ->
           setCursorPosition(e, Param(params, 0, 1), Param(params, 1, 1))
      [] command = Ch("J") -> eraseDisplay(e, Param(params, 0, 0))
      [] command = Ch("K") -> eraseLine(e, Param(params, 0, 0))
      [] command = Ch("m") -> setGraphicsRendition(e, params)
      [] command = Ch("r") ->
           setScrollRegion(e, Param(params, 0, 1), Param(params, 1, e.ts.rows))
      [] command = Ch("s") -> saveCursor(e)
      [] command = Ch("u") -> restoreCursor(e)
      [] command = Ch("l") -> setMode(e, params, FALSE)
      [] command = Ch("h") -> setMode(e, params, TRUE)
      [] OTHER -> e

processCSISequence(e, text, startIndex) ==
    LET i == ParamsEnd(text, startIndex)
    IN IF i >= Len(text) THEN [e |-> e, newIndex |-> Len(text)]
       ELSE [e |-> CSICommand(e, At(text, i),
                              ParseParams(SubSeq(text, startIndex + 1, i))),
             newIndex |-> i + 1]

\* the index of the BEL or of the ESC of ESC-backslash that ends the OSC
\* sequence (text.length if there is none)
RECURSIVE OSCEnd(_, _)
OSCEnd(text, i) ==
    IF i < Len(text) /\ At(text, i) # Ch("BEL")
       /\ ~(At(text, i) = Ch("ESC") /\ At(text, i + 1) = Ch("BACKSLASH"))
    THEN OSCEnd(text, i + 1)
    ELSE i

\* processOSCSequence leaving the backslash of ESC-backslash to the loop
processOSCSequence_HalfTerminator(e, text, startIndex) ==
    [e |-> e,
     newIndex |-> IF OSCEnd(text, startIndex) < Len(text)
                  THEN OSCEnd(text, startIndex) + 1
                  ELSE OSCEnd(text, startIndex)]

processOSCSequence(e, text, startIndex) ==
    LET i == OSCEnd(text, startIndex)
    IN [e |-> e,
        newIndex |-> IF i < Len(text)
                     THEN IF At(text, i) = Ch("BEL") THEN i + 1 ELSE i + 2
                     ELSE i]

\* ESC 8 restoring the position and leaving the pen
SimpleEscape_KeepsPen(e, nextChar) ==
    CASE nextChar = Ch("M") -> reverseIndex(e)
      [] nextChar = Ch("D") -> index(e)
      [] nextChar = Ch("E") -> nextLine(e)
      [] nextChar = Ch("SEVEN") -> saveCursor(e)
      [] nextChar = Ch("EIGHT") ->
           [restoreCursor(e) EXCEPT !.attributes = e.attributes]
      [] OTHER -> e

SimpleEscape(e, nextChar) ==
    CASE nextChar = Ch("M") -> reverseIndex(e)
      [] nextChar = Ch("D") -> index(e)
      [] nextChar = Ch("E") -> nextLine(e)
      [] nextChar = Ch("SEVEN") -> saveCursor(e)
      [] nextChar = Ch("EIGHT") -> restoreCursor(e)
      [] OTHER -> e

\* processEscapeSequence with an ESC that ends the text left unconsumed
processEscapeSequence_Stalls(e, text, startIndex) ==
    LET i == startIndex + 1
        nextChar == At(text, i)
    IN IF i >= Len(text) THEN [e |-> e, newIndex |-> startIndex]
       ELSE IF nextChar = Ch("LBRACK") THEN processCSISequence(e, text, i + 1)
       ELSE IF nextChar = Ch("RBRACK") THEN processOSCSequence(e, text, i + 1)
       ELSE IF nextChar = Ch("LPAREN") THEN [e |-> e, newIndex |-> i + 2]
       ELSE [e |-> SimpleEscape(e, nextChar), newIndex |-> i + 1]

\* processEscapeSequence with the charset identifier left to the loop
processEscapeSequence_ShortCharset(e, text, startIndex) ==
    LET i == startIndex + 1
        nextChar == At(text, i)
    IN IF i >= Len(text) THEN [e |-> e, newIndex |-> startIndex + 1]
       ELSE IF nextChar = Ch("LBRACK") THEN processCSISequence(e, text, i + 1)
       ELSE IF nextChar = Ch("RBRACK") THEN processOSCSequence(e, text, i + 1)
       ELSE IF nextChar = Ch("LPAREN") THEN [e |-> e, newIndex |-> i + 1]
       ELSE [e |-> SimpleEscape(e, nextChar), newIndex |-> i + 1]

processEscapeSequence(e, text, startIndex) ==
    LET i == startIndex + 1
        nextChar == At(text, i)
    IN IF i >= Len(text) THEN [e |-> e, newIndex |-> startIndex + 1]
       ELSE IF nextChar = Ch("LBRACK") THEN processCSISequence(e, text, i + 1)
       ELSE IF nextChar = Ch("RBRACK") THEN processOSCSequence(e, text, i + 1)
       ELSE IF nextChar = Ch("LPAREN") THEN [e |-> e, newIndex |-> i + 2]
       ELSE [e |-> SimpleEscape(e, nextChar), newIndex |-> i + 1]

\* one turn of the loop of processOutput at index i
ProcessUnit(e, text, i) ==
    LET char == At(text, i)
    IN IF char = Ch("ESC") THEN processEscapeSequence(e, text, i)
       ELSE IF char = Ch("CR")
            THEN [e |-> [e EXCEPT !.ts.cursorX = 0], newIndex |-> i + 1]
       ELSE IF char = Ch("LF") THEN [e |-> lineFeed(e), newIndex |-> i + 1]
       ELSE IF char = Ch("TAB") THEN [e |-> tab(e), newIndex |-> i + 1]
       ELSE IF char = Ch("BS") THEN [e |-> backspace(e), newIndex |-> i + 1]
       ELSE IF char >= 32
            THEN [e |-> insertCharacter(e, char), newIndex |-> i + 1]
       ELSE [e |-> e, newIndex |-> i + 1]

\* the loop of processOutput from index i.  `trace` lists the resume indices
\* returned so far.  A turn that raises ends the call; a turn that does not
\* move the index forward would be repeated for ever: the run is cut there
\* with `hung` set.
RECURSIVE ParseLoop(_, _, _, _)
\* r is what the turn at index i gave
AfterUnit(r, text, i, trace) ==
    IF r.e.threw
    THEN [e |-> r.e, trace |-> trace, hung |-> FALSE]
    ELSE IF r.newIndex <= i
    THEN [e |-> r.e, trace |-> Append(trace, r.newIndex), hung |-> TRUE]
    ELSE ParseLoop(r.e, text, r.newIndex, Append(trace, r.newIndex))

ParseLoop(e, text, i, trace) ==
    IF ~(i < Len(text))
    THEN [e |-> updateDisplay(e), trace |-> trace, hung |-> FALSE]
    ELSE AfterUnit(ProcessUnit(e, text, i), text, i, trace)

processOutput(e, data) == ParseLoop(e, Decode(data), 0, <<>>)

----------------------------------------------------------------------------
(* Screen construction and resize *)

\* every row below `rows` is replaced by a new row of blank cells that
\* carry the pen; rows the array holds at other keys are left alone
initializeScreen(e) ==
    ReplaceRows(e, 0 .. (e.ts.rows - 1), BlankRow(e.ts.cols, e.attributes))

\* the defined rows of scr[from .. to], in increasing order, as scrollback
\* entries that are on the screen no more
RECURSIVE RetireRows(_, _, _)
RetireRows(scr, from, to) ==
    IF from > to THEN <<>>
    ELSE (IF Has(scr, from) THEN <<Retired(scr[from], NoAlias)>> ELSE <<>>)
         \o RetireRows(scr, from + 1, to)

\* the column adjustment of one kept row: new cells are written in place,
\* a narrower row is a new array (slice)
RECURSIVE AdjustColumns(_, _, _, _, _)
AdjustColumns(e, row, last, oldCols, cols) ==
    IF row > last THEN e
    ELSE IF cols > oldCols
         THEN IF ~Has(e.screen, row) THEN Throw(e)
              ELSE AdjustColumns(
                       SetCells(e, row, oldCols .. (cols - 1), PenCell(e)),
                       row + 1, last, oldCols, cols)
    ELSE IF cols < oldCols
         THEN IF ~Has(e.screen, row) THEN Throw(e)
              ELSE AdjustColumns(
                       ReplaceRows(e, {row}, Slice(e.screen[row], cols)),
                       row + 1, last, oldCols, cols)
    ELSE e

resize(e, rows, cols) ==
    LET oldRows == e.ts.rows
        oldCols == e.ts.cols
        e1 == [e EXCEPT !.ts.rows = rows, !.ts.cols = cols,
                        !.ts.scrollBottom = rows - 1]
        e2 == IF rows > oldRows
              THEN ReplaceRows(e1, oldRows .. (rows - 1),
                               BlankRow(cols, e.attributes))
              ELSE IF rows < oldRows
              THEN LET kept == Slice(e1.screen, rows)
                   IN [e1 EXCEPT
                         !.screen = kept,
                         !.scrollback =
                            [k \in DOMAIN e1.scrollback |->
                               IF e1.scrollback[k].at \in DOMAIN kept
                               THEN e1.scrollback[k]
                               ELSE [e1.scrollback[k] EXCEPT !.at = NoAlias]]
                            \o RetireRows(e1.screen, rows, oldRows - 1),
                         !.retired =
                            e1.retired \o RetireRows(e1.screen, rows, oldRows - 1)]
              ELSE e1
        e3 == AdjustColumns(e2, 0, Min(rows, oldRows) - 1, oldCols, cols)
    IN IF e3.threw THEN e3
       ELSE updateDisplay(
                [e3 EXCEPT !.ts.cursorX = Min(e3.ts.cursorX, cols - 1),
                           !.ts.cursorY = Min(e3.ts.cursorY, rows - 1)])

\* getScreenText(): the characters of each row below `rows`, columns below
\* `cols`, undefined rows and cells skipped, trailing white space trimmed,
\* rows joined by line feeds
IsWhiteSpace(c) == c \in {Ch("SP"), Ch("NBSP"), Ch("TAB"), Ch("LF"), Ch("CR")}

RECURSIVE TrimEnd(_)
TrimEnd(str) ==
    IF str # <<>> /\ IsWhiteSpace(str[Len(str)])
    THEN TrimEnd(SubSeq(str, 1, Len(str) - 1))
    ELSE str

RECURSIVE RowChars(_, _, _)
RowChars(row, col, cols) ==
    IF col >= cols THEN <<>>
    ELSE (IF Has(row, col) THEN <<row[col].char>> ELSE <<>>)
         \o RowChars(row, col + 1, cols)

RECURSIVE ScreenText(_, _, _, _)
ScreenText(scr, row, rows, cols) ==
    IF row >= rows THEN <<>>
    ELSE TrimEnd(IF Has(scr, row) THEN RowChars(scr[row], 0, cols) ELSE <<>>)
         \o (IF row < rows - 1 THEN <<Ch("LF")>> ELSE <<>>)
         \o ScreenText(scr, row + 1, rows, cols)

getScreenText == ScreenText(screen, 0, terminalState.rows, terminalState.cols)

\* String.prototype.trim
RECURSIVE TrimStart(_)
TrimStart(str) ==
    IF str # <<>> /\ IsWhiteSpace(str[1]) THEN TrimStart(Tail(str)) ELSE str

Trim(str) == TrimStart(TrimEnd(str))

\* the characters of the defined cells of row, columns col .. last
RECURSIVE SelectedChars(_, _, _)
SelectedChars(row, col, last) ==
    IF col > last THEN <<>>
    ELSE (IF Has(row, col) THEN <<row[col].char>> ELSE <<>>)
         \o SelectedChars(row, col + 1, last)

\* the text copySelection builds from row `row` on
RECURSIVE SelectionText(_, _, _, _, _, _, _)
SelectionText(scr, cols, row, startRow, startCol, endRow, endCol) ==
    IF row > endRow THEN <<>>
    ELSE (IF Has(scr, row)
          THEN SelectedChars(scr[row],
                             IF row = startRow THEN startCol ELSE 0,
                             IF row = endRow THEN endCol ELSE cols - 1)
          ELSE <<>>)
         \o (IF row < endRow THEN <<Ch("LF")>> ELSE <<>>)
         \o SelectionText(scr, cols, row + 1, startRow, startCol, endRow, endCol)

----------------------------------------------------------------------------
(* The session recorder *)

LogEntry(type, data, timestamp) ==
    [type |-> type, data |-> data, timestamp |-> timestamp]

\* the guard without its test of isReplaying
ShouldRecord_WhenEnabled(enableReplay, replaying) == enableReplay

\* the guard of write's call of addToReplayLog
ShouldRecord(enableReplay, replaying) == enableReplay /\ ~replaying

\* addToReplayLog with unshift in the place of push
addToReplayLog_Unshift(log, type, data, timestamp, maxReplaySize) ==
    LET pushed == <<LogEntry(type, data, timestamp)>> \o log
    IN IF Len(pushed) > maxReplaySize
       THEN [log |-> pushed, kept |-> SliceLast(pushed, maxReplaySize \div 2),
             trimmed |-> TRUE]
       ELSE [log |-> pushed, kept |-> pushed, trimmed |-> FALSE]

\* addToReplayLog: the push, then the trim.  `log` is the array after the
\* push (the array replayData may share), `kept` is this.sessionLog after
\* the call, `trimmed` tells whether slice made a new array.
addToReplayLog(log, type, data, timestamp, maxReplaySize) ==
    LET pushed == Append(log, LogEntry(type, data, timestamp))
    IN IF Len(pushed) > maxReplaySize
       THEN [log |-> pushed, kept |-> SliceLast(pushed, maxReplaySize \div 2),
             trimmed |-> TRUE]
       ELSE [log |-> pushed, kept |-> pushed, trimmed |-> FALSE]

----------------------------------------------------------------------------
(* The state after construction *)

NoSavedCursor ==
    [set |-> FALSE, x |-> 0, y |-> 0, attributes |-> DefaultAttributes]

\* this.replayIndex is undefined until the first startReplay
UndefinedIndex == 0 - 1

NoOp ==
    [op |-> "new", data |-> <<>>, rows |-> 0, cols |-> 0, error |-> "none",
     retLen |-> 0 - 1, retMore |-> FALSE, trace |-> <<>>, hung |-> FALSE,
     updates |-> 0, logged |-> FALSE, atBottom |-> FALSE, text |-> <<>>,
     selection |-> <<>>]

NoHist ==
    [liveWrites |-> <<>>, trimmed |-> FALSE, phase |-> "live",
     liveText |-> <<>>, retired |-> <<>>, raised |-> FALSE]

\* the state after construction, with this.config then set to cfg
Constructed(cfg, calls) ==
    /\ terminalState =
          [cursorX |-> 0, cursorY |-> 0, rows |-> InitRows, cols |-> InitCols,
           scrollTop |-> 0, scrollBottom |-> InitRows - 1,
           wraparound |-> TRUE, applicationCursor |-> FALSE]
    /\ screen = [row \in 0 .. (InitRows - 1) |->
                    BlankRow(InitCols, DefaultAttributes)]
    /\ scrollback = <<>>
    /\ attributes = DefaultAttributes
    /\ savedCursor = NoSavedCursor
    /\ config = cfg
    /\ sessionLog = <<>>
    /\ replayData = [entries |-> <<>>, isSessionLog |-> FALSE]
    /\ replayIndex = UndefinedIndex
    /\ isReplaying = FALSE
    /\ nops = 0
    /\ budget = calls
    /\ lastOp = NoOp
    /\ hist = NoHist

Config(maxScrollback, maxReplaySize, enableReplay, enableClipboard) ==
    [maxScrollback |-> maxScrollback, tabSize |-> TabSize,
     enableReplay |-> enableReplay, enableClipboard |-> enableClipboard,
     maxReplaySize |-> maxReplaySize]

Construct(maxScrollback, maxReplaySize, enableReplay, calls) ==
    Constructed(Config(maxScrollback, maxReplaySize, enableReplay, TRUE), calls)

Init == Construct(MaxCap, MaxCap, TRUE, MaxOps)

----------------------------------------------------------------------------
(* The calls.  Every call counts against the budget.                       *)

Call ==
    /\ budget > 0
    /\ budget' = budget - 1
    /\ nops' = nops + 1

\* the engine value e becomes the state of the engine
Commit(e) ==
    /\ terminalState' = e.ts
    /\ screen' = e.screen
    /\ scrollback' = e.scrollback
    /\ attributes' = e.attributes
    /\ savedCursor' = e.savedCursor

\* write(data), as called by a client (external = TRUE) or by stepReplay:
\* the entry is recorded before the parse, unless a replay is going on
\* live: the entry is recorded; rec: what addToReplayLog gives; r: what
\* processOutput gives
WriteOutcome(live, rec, r, data, external, opName, more) ==
    /\ sessionLog' = IF live THEN rec.kept ELSE sessionLog
    /\ replayData' =
          IF live /\ replayData.isSessionLog
          THEN [entries |-> rec.log, isSessionLog |-> ~rec.trimmed]
          ELSE replayData
    /\ Commit(r.e)
    /\ lastOp' =
          [NoOp EXCEPT !.op = opName, !.data = data,
                       !.error = IF r.e.threw THEN "TypeError" ELSE "none",
                       !.retLen = IF r.e.threw \/ r.hung \/ ~external
                                  THEN 0 - 1 ELSE Len(data),
                       !.retMore = more /\ ~r.e.threw /\ ~r.hung,
                       !.trace = r.trace, !.hung = r.hung,
                       !.updates = r.e.updates, !.logged = live,
                       !.atBottom = (terminalState.cursorY =
                                     terminalState.scrollBottom)]
    /\ hist' =
          [hist EXCEPT
             !.liveWrites = IF external /\ config.enableReplay
                               /\ ~isReplaying
                            THEN Append(@, data) ELSE @,
             !.trimmed = @ \/ (live /\ rec.trimmed),
             !.phase = IF external /\ ~live THEN "other" ELSE @,
             !.raised = @ \/ r.e.threw \/ r.hung,
             !.retired = r.e.retired]
    /\ replayIndex' = IF external \/ r.e.threw \/ r.hung THEN replayIndex
                      ELSE replayIndex + 1

WriteEffect(data, external, opName, more) ==
    WriteOutcome(ShouldRecord(config.enableReplay, isReplaying),
                 addToReplayLog(sessionLog, "output", data, nops,
                                config.maxReplaySize),
                 processOutput(Engine, data),
                 data, external, opName, more)

Write(data) ==
    /\ Call
    /\ WriteEffect(data, TRUE, "write", FALSE)
    /\ UNCHANGED <<config, isReplaying>>

\* e: what resize gives
ResizeOutcome(e, rows, cols) ==
    /\ Commit(e)
    /\ lastOp' = [NoOp EXCEPT !.op = "resize", !.rows = rows,
                    !.cols = cols, !.updates = e.updates,
                    !.error = IF e.threw THEN "TypeError" ELSE "none"]
    /\ hist' = [hist EXCEPT !.phase = "other", !.retired = e.retired,
                             !.raised = @ \/ e.threw]

Resize(rows, cols) ==
    /\ Call
    /\ ResizeOutcome(resize(Engine, rows, cols), rows, cols)
    /\ UNCHANGED <<config, sessionLog, replayData, replayIndex, isReplaying>>

\* clear emptying the scrollback as well
Clear_DropsScrollback ==
    /\ Call
    /\ LET e == updateDisplay(
                    [initializeScreen(Engine) EXCEPT !.ts.cursorX = 0,
                                                     !.ts.cursorY = 0,
                                                     !.scrollback = <<>>])
       IN /\ Commit(e)
          /\ lastOp' = [NoOp EXCEPT !.op = "clear", !.updates = e.updates]
          /\ hist' = [hist EXCEPT !.phase = "other"]
    /\ UNCHANGED <<config, sessionLog, replayData, replayIndex, isReplaying>>

Clear ==
    /\ Call
    /\ LET e == updateDisplay(
                    [initializeScreen(Engine) EXCEPT !.ts.cursorX = 0,
                                                     !.ts.cursorY = 0])
       IN /\ Commit(e)
          /\ lastOp' = [NoOp EXCEPT !.op = "clear", !.updates = e.updates]
          /\ hist' = [hist EXCEPT !.phase = "other"]
    /\ UNCHANGED <<config, sessionLog, replayData, replayIndex, isReplaying>>

\* startReplay without its test of config.enableReplay
StartReplay_Unguarded(entries, isLog) ==
    /\ Call
    /\ isReplaying' = TRUE
    /\ replayIndex' = 0
    /\ replayData' = [entries |-> entries, isSessionLog |-> isLog]
    /\ Commit([initializeScreen(Engine) EXCEPT !.ts.cursorX = 0,
                                               !.ts.cursorY = 0])
    /\ lastOp' = [NoOp EXCEPT !.op = "startReplay"]
    /\ hist' = [hist EXCEPT !.phase = "other"]
    /\ UNCHANGED <<config, sessionLog>>

\* startReplay(entries); isLog: entries is the array this.sessionLog itself
StartReplay(entries, isLog) ==
    /\ Call
    /\ IF ~config.enableReplay
       THEN /\ lastOp' = [NoOp EXCEPT !.op = "startReplay", !.error = "Error"]
            /\ hist' = [hist EXCEPT !.raised = TRUE]
            /\ UNCHANGED <<terminalState, screen, scrollback, attributes,
                           savedCursor, replayData, replayIndex, isReplaying>>
       ELSE /\ isReplaying' = TRUE
            /\ replayIndex' = 0
            /\ replayData' = [entries |-> entries, isSessionLog |-> isLog]
            /\ Commit([initializeScreen(Engine) EXCEPT !.ts.cursorX = 0,
                                                       !.ts.cursorY = 0])
            /\ lastOp' = [NoOp EXCEPT !.op = "startReplay"]
            /\ hist' = IF hist.phase = "live" /\ isLog /\ ~hist.trimmed
                       THEN [hist EXCEPT !.phase = "replay",
                                         !.liveText = getScreenText]
                       ELSE [hist EXCEPT !.phase = "other"]
    /\ UNCHANGED <<config, sessionLog>>

\* stepReplay going idle when it has consumed the last entry
StepReplay_EndsReplay ==
    /\ Call
    /\ IF ~isReplaying \/ replayIndex >= Len(replayData.entries)
       THEN /\ lastOp' = [NoOp EXCEPT !.op = "stepReplay", !.retMore = FALSE]
            /\ UNCHANGED <<terminalState, screen, scrollback, attributes,
                           savedCursor, sessionLog, replayData, replayIndex,
                           hist>>
       ELSE LET entry == replayData.entries[replayIndex + 1]
                more == replayIndex + 1 < Len(replayData.entries)
            IN IF entry.type = "output"
               THEN WriteEffect(entry.data, FALSE, "stepReplay", more)
               ELSE /\ replayIndex' = replayIndex + 1
                    /\ lastOp' = [NoOp EXCEPT !.op = "stepReplay",
                                              !.retMore = more]
                    /\ UNCHANGED <<terminalState, screen, scrollback,
                                   attributes, savedCursor, sessionLog,
                                   replayData, hist>>
    /\ isReplaying' = (isReplaying /\ replayIndex + 1 < Len(replayData.entries))
    /\ UNCHANGED config

StepReplay ==
    /\ Call
    /\ IF ~isReplaying \/ replayIndex >= Len(replayData.entries)
       THEN /\ lastOp' = [NoOp EXCEPT !.op = "stepReplay", !.retMore = FALSE]
            /\ UNCHANGED <<terminalState, screen, scrollback, attributes,
                           savedCursor, sessionLog, replayData, replayIndex,
                           hist>>
       ELSE LET entry == replayData.entries[replayIndex + 1]
                more == replayIndex + 1 < Len(replayData.entries)
            IN IF entry.type = "output"
               THEN WriteEffect(entry.data, FALSE, "stepReplay", more)
               ELSE /\ replayIndex' = replayIndex + 1
                    /\ lastOp' = [NoOp EXCEPT !.op = "stepReplay",
                                              !.retMore = more]
                    /\ UNCHANGED <<terminalState, screen, scrollback,
                                   attributes, savedCursor, sessionLog,
                                   replayData, hist>>
    /\ UNCHANGED <<config, isReplaying>>

\* stopReplay without the assignment to isReplaying
StopReplay_KeepsReplaying ==
    /\ Call
    /\ replayIndex' = 0
    /\ lastOp' = [NoOp EXCEPT !.op = "stopReplay"]
    /\ hist' = [hist EXCEPT !.phase = "other"]
    /\ UNCHANGED <<terminalState, screen, scrollback, attributes, savedCursor,
                   config, sessionLog, replayData, isReplaying>>

StopReplay ==
    /\ Call
    /\ isReplaying' = FALSE
    /\ replayIndex' = 0
    /\ lastOp' = [NoOp EXCEPT !.op = "stopReplay"]
    /\ hist' = [hist EXCEPT !.phase = "other"]
    /\ UNCHANGED <<terminalState, screen, scrollback, attributes, savedCursor,
                   config, sessionLog, replayData>>

\* copySelection(startRow, startCol, endRow, endCol): the text returned is
\* recorded in lastOp.text
CopySelection(startRow, startCol, endRow, endCol) ==
    /\ Call
    /\ IF ~config.enableClipboard
       THEN /\ lastOp' = [NoOp EXCEPT !.op = "copySelection", !.error = "Error",
                             !.selection =
                                <<startRow, startCol, endRow, endCol>>]
            /\ hist' = [hist EXCEPT !.raised = TRUE]
       ELSE /\ lastOp' = [NoOp EXCEPT !.op = "copySelection",
                             !.selection =
                                <<startRow, startCol, endRow, endCol>>,
                             !.text = Trim(SelectionText(screen,
                                         terminalState.cols, startRow,
                                         startRow, startCol, endRow, endCol))]
            /\ UNCHANGED hist
    /\ UNCHANGED <<terminalState, screen, scrollback, attributes, savedCursor,
                   config, sessionLog, replayData, replayIndex, isReplaying>>

----------------------------------------------------------------------------
(* Payloads: the bytes of the text a client writes *)

X == <<Ch("X")>>
Y == <<Ch("Y")>>
LF == <<Ch("LF")>>
CR == <<Ch("CR")>>
ESC == <<Ch("ESC")>>
CSI == <<Ch("ESC"), Ch("LBRACK")>>
OSC == <<Ch("ESC"), Ch("RBRACK")>>
SEMI == <<Ch("SEMI")>>

\* the decimal digits of n, 0 <= n <= 99
Digits(n) ==
    IF n < 10 THEN <<Ch("ZERO") + n>>
    ELSE <<Ch("ZERO") + (n \div 10), Ch("ZERO") + (n % 10)>>

\* a row of printable characters as wide as the constructed grid
FillRow == [i \in 1 .. InitCols |-> Ch("X")]

GridPayloads ==
    { X, FillRow, LF, ESC \o <<Ch("M")>>,
      CSI \o Digits(2) \o SEMI \o Digits(2) \o <<Ch("r")>>,
      CSI \o Digits(InitRows) \o SEMI \o Digits(1) \o <<Ch("r")>>,
      CSI \o Digits(InitRows + 6) \o <<Ch("r")>>,
      CSI \o Digits(InitRows) \o <<Ch("H")>>,
      CSI \o Digits(1) \o <<Ch("K")>>,
      CSI \o Digits(2) \o <<Ch("K")>>,
      CSI \o Digits(2) \o <<Ch("J")>>,
      ESC \o <<Ch("SEVEN")>>,
      ESC \o <<Ch("EIGHT")>>,
      CSI \o Digits(31) \o <<Ch("m")>> }

GridSizes == {<<InitRows - 1, InitCols - 1>>, <<InitRows + 1, InitCols + 1>>}

Next ==
    \/ \E data \in GridPayloads : Write(data)
    \/ \E size \in GridSizes : Resize(size[1], size[2])
    \/ Clear

Spec == Init /\ [][Next]_vars

----------------------------------------------------------------------------
(* Claims about the grid: cursor, rows, scroll region *)

\* C1: cursor bound invariant: after every write and every resize,
\* 0 <= cursorX < cols and 0 <= cursorY < rows.
C1_CursorBound ==
    /\ 0 <= terminalState.cursorX
    /\ terminalState.cursorX < terminalState.cols
    /\ 0 <= terminalState.cursorY
    /\ terminalState.cursorY < terminalState.rows

\* C2: crash-proof input handling: no write raises an error, whatever the
\* bytes written.
C2_NoWriteRaises ==
    lastOp.op = "write" => lastOp.error = "none"

\* C4: row-width invariant: the screen has exactly `rows` rows and every
\* row has exactly `cols` cells.
C4_RowWidth ==
    /\ DOMAIN screen = 0 .. (terminalState.rows - 1)
    /\ \A row \in DOMAIN screen :
          DOMAIN screen[row] = 0 .. (terminalState.cols - 1)

\* C5: scroll-region invariant: 0 <= scrollTop <= scrollBottom <= rows - 1.
C5_ScrollRegion ==
    /\ 0 <= terminalState.scrollTop
    /\ terminalState.scrollTop <= terminalState.scrollBottom
    /\ terminalState.scrollBottom <= terminalState.rows - 1

----------------------------------------------------------------------------
(* The recorder and the replay driver *)

\* a log made by another instance: an entry of another type, then output
ExternalLog ==
    <<LogEntry("input", X, 0), LogEntry("output", Y, 0)>>

ReplayPayloads ==
    { LF \o Y,
      CSI \o Digits(1) \o SEMI \o Digits(1) \o <<Ch("r")>>,
      X }

InitReplay == Construct(MaxCap, MaxCap, TRUE, MaxReplayOps)

NextReplay ==
    \/ \E data \in ReplayPayloads : Write(data)
    \/ StartReplay(sessionLog, TRUE)
    \/ StartReplay(ExternalLog, FALSE)
    \/ StepReplay
    \/ StopReplay

SpecReplay == InitReplay /\ [][NextReplay]_vars

\* C6: replay fidelity: live writes on a fresh engine, then
\* startReplay(sessionLog) and stepReplay until it returns false, on the
\* same engine (hence the same dimensions), give the screen text the live
\* writes gave.
C6_ReplayFidelity ==
    ( /\ hist.phase = "replay"
      /\ ~hist.raised
      /\ lastOp.op \in {"startReplay", "stepReplay"}
      /\ replayIndex >= Len(replayData.entries) )
    => getScreenText = hist.liveText

\* C7: no self-recording during replay: in the Replaying state no call
\* changes the session log, and a stepReplay never changes its length.
C7_NoSelfRecording ==
    [][ /\ isReplaying => sessionLog' = sessionLog
        /\ lastOp'.op = "stepReplay" => Len(sessionLog') = Len(sessionLog)
      ]_vars

C7_Witness ==
    /\ isReplaying
    /\ lastOp.op = "stepReplay"
    /\ replayIndex >= 1
    /\ Len(sessionLog) >= 1

PayloadsOf(log) == [k \in 1 .. Len(log) |-> log[k].data]

\* C8: live recording order: with replay enabled and no replay going on, a
\* write appends one entry of type 'output' carrying its payload to the end
\* of the session log, whether or not the parse then raises; as long as no
\* trim has occurred, the log lists the payloads of all live writes in call
\* order.
C8_LiveRecordingOrder ==
    [][ /\ (lastOp'.op = "write" /\ config.enableReplay /\ ~isReplaying) =>
             /\ sessionLog' # <<>>
             /\ sessionLog'[Len(sessionLog')].type = "output"
             /\ sessionLog'[Len(sessionLog')].data = lastOp'.data
             /\ Len(sessionLog) + 1 <= config.maxReplaySize =>
                   /\ Len(sessionLog') = Len(sessionLog) + 1
                   /\ SubSeq(sessionLog', 1, Len(sessionLog)) = sessionLog
        /\ ~hist'.trimmed => PayloadsOf(sessionLog') = hist'.liveWrites
      ]_vars

C8_Witness ==
    /\ lastOp.op = "write"
    /\ lastOp.logged
    /\ ~hist.trimmed
    /\ Len(sessionLog) = 2
    /\ sessionLog[1].data # sessionLog[2].data
    /\ sessionLog[2].data = lastOp.data

----------------------------------------------------------------------------
(* The parser on its own: one write of any text over the bytes that drive  *)
(* the parser, to a newly constructed engine                               *)

\* the bytes that open, continue and end escape sequences, with LF for the
\* bytes that are consumed one at a time
EscapeBytes ==
    { Ch("ESC"), Ch("LBRACK"), Ch("RBRACK"), Ch("LPAREN"), Ch("BACKSLASH"),
      Ch("BEL"), Ch("SEVEN"), Ch("SEMI"), Ch("LF") }

\* with the other bytes the loop of processOutput tells apart
ParserBytes ==
    EscapeBytes \cup {Ch("CR"), Ch("TAB"), Ch("BS"), Ch("NUL"), Ch("X")}

Texts(bytes, len) == UNION { [1 .. n -> bytes] : n \in 0 .. len }

ParserTexts ==
    Texts(EscapeBytes, MaxTextLen) \cup Texts(ParserBytes, MaxTextLen - 2)

InitParser == Construct(MaxCap, MaxCap, TRUE, 1)

NextParser ==
    /\ budget > 0
    /\ \E data \in ParserTexts : Write(data)

SpecParser == InitParser /\ [][NextParser]_vars

StrictlyIncreasing(seq) ==
    \A k \in 1 .. (Len(seq) - 1) : seq[k] < seq[k + 1]

\* C3: parser progress and termination: every turn of the loop of
\* processOutput resumes at an index strictly greater than the one it
\* started from, so the loop ends, and it ends with the whole text consumed.
C3_ParserProgress ==
    lastOp.op = "write" =>
       /\ ~lastOp.hung
       /\ StrictlyIncreasing(<<0>> \o lastOp.trace)
       /\ (lastOp.error = "none" /\ lastOp.data # <<>>) =>
             /\ lastOp.trace # <<>>
             /\ lastOp.trace[Len(lastOp.trace)] >= Len(Decode(lastOp.data))

\* a charset selection, then an ESC that ends the text
C3_Witness ==
    /\ lastOp.op = "write"
    /\ lastOp.data = <<Ch("ESC"), Ch("LPAREN"), Ch("LF"), Ch("ESC")>>
    /\ lastOp.trace = <<3, 4>>
    /\ lastOp.error = "none"

----------------------------------------------------------------------------
(* The scrollback store under line feeds and resizes, for every configured *)
(* capacity                                                                *)

LineFeeds(n) == [i \in 1 .. n |-> Ch("LF")]

ScrollPayloads == { X, Y, LF, LineFeeds(2), LineFeeds(MaxCap + 1) }

InitScroll == \E ms \in 1 .. MaxCap : Construct(ms, MaxCap, TRUE, MaxOps)

NextScroll ==
    \/ \E data \in ScrollPayloads : Write(data)
    \/ \E size \in GridSizes : Resize(size[1], size[2])

SpecScroll == InitScroll /\ [][NextScroll]_vars

IsSuffix(a, b) ==
    /\ Len(a) <= Len(b)
    /\ \A k \in 1 .. Len(a) : a[k] = b[Len(b) - Len(a) + k]

\* the rows of the scrollback, whether or not the screen still holds them
RowsOf(sb) == [k \in 1 .. Len(sb) |-> [sb[k] EXCEPT !.at = NoAlias]]

\* C9: scrollback growth under line feeds: for every configured
\* maxScrollback >= 1, a write of N line feeds, N > maxScrollback, with
\* the cursor at scrollBottom leaves scrollback.length <= maxScrollback,
\* and the rows that remain are the most recently retired rows in order.
C9_ScrollbackGrowth ==
    ( /\ lastOp.op = "write"
      /\ lastOp.atBottom
      /\ lastOp.data = LineFeeds(Len(lastOp.data))
      /\ Len(lastOp.data) > config.maxScrollback )
    => /\ Len(scrollback) <= config.maxScrollback
       /\ IsSuffix(RowsOf(scrollback), hist.retired)

\* C10: scrollback capacity bound: in every reachable state
\* scrollback.length <= maxScrollback.
C10_ScrollbackBound ==
    Len(scrollback) <= config.maxScrollback


----------------------------------------------------------------------------
(* A session: writes, resizes, replay and the clipboard, for every setting *)
(* of the feature flags and of the capacity of the session log             *)

\* a payload whose parse raises on a new engine: the cursor leaves the grid
\* above a scroll region that starts at the second row, then a character
CrashPayload ==
    CSI \o Digits(2) \o SEMI \o Digits(2) \o <<Ch("r")>>
        \o ESC \o <<Ch("M")>> \o X

SessionPayloads == { X, LF \o Y, CrashPayload }

Selections == { <<0, 0, InitRows - 1, InitCols - 1>> }

InitSession ==
    \E er \in BOOLEAN, ec \in BOOLEAN, mr \in 1 .. MaxCap :
        Constructed(Config(MaxCap, mr, er, ec), MaxOps)

NextSession ==
    \/ \E data \in SessionPayloads : Write(data)
    \/ \E size \in GridSizes : Resize(size[1], size[2])
    \/ StartReplay(sessionLog, TRUE)
    \/ StartReplay(ExternalLog, FALSE)
    \/ StepReplay
    \/ StopReplay
    \/ \E sel \in Selections : CopySelection(sel[1], sel[2], sel[3], sel[4])

SpecSession == InitSession /\ [][NextSession]_vars

\* C11: session-log capacity bound: for every maxReplaySize >= 1 the
\* session log never holds more than maxReplaySize entries, and the entries
\* it holds are the most recent recorded payloads in their original order.
C11_LogCapacity ==
    /\ Len(sessionLog) <= config.maxReplaySize
    /\ IsSuffix(PayloadsOf(sessionLog), hist.liveWrites)


----------------------------------------------------------------------------
(* Cursor movement and the scroll region *)

CursorUpBy(n) == CSI \o Digits(n) \o <<Ch("A")>>
CursorDownBy(n) == CSI \o Digits(n) \o <<Ch("B")>>

VerticalMoves ==
    { CSI \o <<Ch("A")>>, CSI \o <<Ch("B")>>,
      CursorUpBy(1), CursorDownBy(1), CursorUpBy(2), CursorDownBy(2) }

CursorPayloads ==
    VerticalMoves \cup
    { CSI \o Digits(1) \o SEMI \o Digits(1) \o <<Ch("r")>>,
      CSI \o Digits(InitRows) \o SEMI \o Digits(InitRows) \o <<Ch("r")>>,
      CSI \o Digits(1) \o SEMI \o Digits(InitRows) \o <<Ch("r")>>,
      CSI \o Digits(InitRows) \o <<Ch("H")>>,
      CSI \o <<Ch("H")>>,
      LF }

InitCursor == Construct(MaxCap, MaxCap, TRUE, MaxOps)

NextCursor ==
    \/ \E data \in CursorPayloads : Write(data)
    \/ \E size \in GridSizes : Resize(size[1], size[2])

SpecCursor == InitCursor /\ [][NextCursor]_vars

\* C12: scroll-region containment: after a cursor-up (CSI A) or a
\* cursor-down (CSI B) command, scrollTop <= cursorY <= scrollBottom.
C12_RegionContainment ==
    (lastOp.op = "write" /\ lastOp.data \in VerticalMoves) =>
        /\ terminalState.scrollTop <= terminalState.cursorY
        /\ terminalState.cursorY <= terminalState.scrollBottom


----------------------------------------------------------------------------
(* Feature flags *)

\* C13: feature-flag precondition: with config.enableReplay false,
\* startReplay raises an error and changes nothing (screen, cursor,
\* isReplaying, replay index, replay data); with config.enableClipboard
\* false, copySelection raises an error and changes nothing.
C13_FeatureFlags ==
    [][ /\ (lastOp'.op = "startReplay" /\ ~config.enableReplay) =>
              /\ lastOp'.error = "Error"
              /\ ~isReplaying'
              /\ UNCHANGED <<terminalState, screen, scrollback, attributes,
                             savedCursor, config, sessionLog, replayData,
                             replayIndex, isReplaying>>
        /\ (lastOp'.op = "copySelection" /\ ~config.enableClipboard) =>
              /\ lastOp'.error = "Error"
              /\ UNCHANGED <<terminalState, screen, scrollback, attributes,
                             savedCursor, config, sessionLog, replayData,
                             replayIndex, isReplaying>>
      ]_vars

C13_Witness ==
    /\ ~config.enableReplay
    /\ lastOp.op = "startReplay"
    /\ lastOp.error = "Error"
    /\ terminalState.cursorX > 0
    /\ ~isReplaying


----------------------------------------------------------------------------
(* Resize with arguments that are no dimensions *)

InvalidSizes ==
    { <<0, InitCols>>, <<InitRows, 0>>, <<0, 0>>, <<0 - 1, InitCols>>,
      <<InitRows, 0 - 1>> }

ResizePayloads == { X, LF, CSI \o Digits(InitRows) \o <<Ch("H")>> }

InitResize == Construct(MaxCap, MaxCap, TRUE, MaxOps)

NextResize ==
    \/ \E data \in ResizePayloads : Write(data)
    \/ \E size \in GridSizes \cup InvalidSizes : Resize(size[1], size[2])

SpecResize == InitResize /\ [][NextResize]_vars

\* C14: invalid resize arguments: resize(newRows, newCols) with
\* newRows <= 0 or newCols <= 0 never throws, and afterwards rows >= 1,
\* cols >= 1, the screen has rows rows of cols cells and the cursor is
\* inside the grid.
C14_InvalidResize ==
    (lastOp.op = "resize" /\ (lastOp.rows <= 0 \/ lastOp.cols <= 0)) =>
        /\ lastOp.error = "none"
        /\ terminalState.rows >= 1
        /\ terminalState.cols >= 1
        /\ DOMAIN screen = 0 .. (terminalState.rows - 1)
        /\ \A row \in DOMAIN screen :
              DOMAIN screen[row] = 0 .. (terminalState.cols - 1)
        /\ 0 <= terminalState.cursorX
        /\ terminalState.cursorX < terminalState.cols
        /\ 0 <= terminalState.cursorY
        /\ terminalState.cursorY < terminalState.rows


----------------------------------------------------------------------------
(* Line feeds written to a new engine *)

LinePayloads == { LineFeeds(n) : n \in 1 .. (InitRows + 1) } \cup { X }

InitLines == Construct(MaxCap, MaxCap, TRUE, MaxOps)

NextLines == \E data \in LinePayloads : Write(data)

SpecLines == InitLines /\ [][NextLines]_vars

RECURSIVE TotalLength(_)
TotalLength(payloads) ==
    IF payloads = <<>> THEN 0
    ELSE Len(Head(payloads)) + TotalLength(Tail(payloads))

\* all that was done to the new engine is to write n line feeds
WroteLineFeeds(n) ==
    /\ nops = Len(hist.liveWrites)
    /\ \A k \in 1 .. Len(hist.liveWrites) :
          hist.liveWrites[k] = LineFeeds(Len(hist.liveWrites[k]))
    /\ TotalLength(hist.liveWrites) = n

\* C15 as stated: on a new engine (cursor on row 0, default scroll region),
\* writing one line feed more than there are rows leaves
\* scrollback.length = 1 and the cursor on the last row.
C15_LineFeedScenario ==
    WroteLineFeeds(InitRows + 1) =>
        /\ Len(scrollback) = 1
        /\ terminalState.cursorY = InitRows - 1

\* C15 as amended: on a new engine, writing one line feed more than there
\* are rows leaves scrollback.length = 2 and the cursor on the last row:
\* rows - 1 line feeds move the cursor to the last row and each of the two
\* that remain retires one row.
C15_LineFeedScenarioAmended ==
    WroteLineFeeds(InitRows + 1) =>
        /\ Len(scrollback) = 2
        /\ terminalState.cursorY = InitRows - 1

C15_Witness ==
    /\ WroteLineFeeds(InitRows + 1)
    /\ Len(hist.liveWrites) = 1
    /\ Len(scrollback) = 2
    /\ terminalState.cursorY = terminalState.scrollBottom


----------------------------------------------------------------------------
(* The pen: rendition codes, save and restore *)

\* CSI codes m, codes separated by ';'
RECURSIVE JoinCodes(_)
JoinCodes(codes) ==
    IF codes = <<>> THEN <<>>
    ELSE IF Len(codes) = 1 THEN Digits(codes[1])
    ELSE Digits(codes[1]) \o SEMI \o JoinCodes(Tail(codes))

Rendition(codes) == CSI \o JoinCodes(codes) \o <<Ch("m")>>

\* the sequences that hold code 0 (the first with no parameter at all, the
\* last with an empty first parameter), with the codes that follow the 0
ResetPayloads ==
    { Rendition(<<>>), Rendition(<<0>>), Rendition(<<1, 0>>),
      Rendition(<<0, 1, 31>>), Rendition(<<31, 0, 4>>),
      CSI \o SEMI \o Digits(3) \o <<Ch("m")>> }

PenPayloads ==
    ResetPayloads \cup
    { Rendition(<<1>>), Rendition(<<31>>), Rendition(<<44>>),
      Rendition(<<7, 9>>), Rendition(<<22>>),
      ESC \o <<Ch("SEVEN")>>, ESC \o <<Ch("EIGHT")>>, X }

InitPen == Construct(MaxCap, MaxCap, TRUE, MaxOps)

NextPen == \E data \in PenPayloads : Write(data)

SpecPen == InitPen /\ [][NextPen]_vars

AllFlagsOff(a) ==
    /\ ~a.bold /\ ~a.dim /\ ~a.italic /\ ~a.underline
    /\ ~a.blink /\ ~a.reverse /\ ~a.strikethrough

\* C16: round-trip attribute reset: from any pen state, CSI m with code 0
\* (or with no parameter) leaves all seven flags false, foreground 7 and
\* background 0; codes after the 0 are applied on top of the default in
\* list order.
C16_AttributeReset ==
    lastOp.op = "write" =>
        /\ lastOp.data \in { Rendition(<<>>), Rendition(<<0>>),
                             Rendition(<<1, 0>>) } =>
              /\ AllFlagsOff(attributes)
              /\ attributes.foreground = 7
              /\ attributes.background = 0
        /\ lastOp.data = Rendition(<<0, 1, 31>>) =>
              /\ attributes.bold
              /\ AllFlagsOff([attributes EXCEPT !.bold = FALSE])
              /\ attributes.foreground = 1
              /\ attributes.background = 0
        /\ lastOp.data = Rendition(<<31, 0, 4>>) =>
              /\ attributes.underline
              /\ AllFlagsOff([attributes EXCEPT !.underline = FALSE])
              /\ attributes.foreground = 7
              /\ attributes.background = 0
        /\ lastOp.data = CSI \o SEMI \o Digits(3) \o <<Ch("m")>> =>
              /\ attributes.italic
              /\ AllFlagsOff([attributes EXCEPT !.italic = FALSE])
              /\ attributes.foreground = 7
              /\ attributes.background = 0

\* the pen was reset after a pen with other colours and flags was saved
C16_Witness ==
    /\ lastOp.op = "write"
    /\ lastOp.data = Rendition(<<0>>)
    /\ attributes = DefaultAttributes
    /\ savedCursor.set
    /\ savedCursor.attributes.reverse
    /\ savedCursor.attributes.strikethrough


----------------------------------------------------------------------------
(* Erase *)

\* CSI mode K (kind "K") and CSI mode J (kind "J")
Erase(kind, mode) == CSI \o Digits(mode) \o <<Ch(kind)>>

EraseKinds == {"J", "K"}
EraseModes == 0 .. 2

ErasePayloads ==
    { Erase(kind, mode) : kind \in EraseKinds, mode \in EraseModes }
    \cup { CSI \o <<Ch("K")>> }

OtherPayloads ==
    { X, FillRow, LF, CSI \o Digits(2) \o SEMI \o Digits(2) \o <<Ch("H")>>,
      Rendition(<<31>>) }

InitErase == Construct(MaxCap, MaxCap, TRUE, MaxOps)

NextErase == \E data \in ErasePayloads \cup OtherPayloads : Write(data)

SpecErase == InitErase /\ [][NextErase]_vars

\* the positions of the grid
Grid == (0 .. (terminalState.rows - 1)) \X (0 .. (terminalState.cols - 1))

\* the cell of the screen at each position of the grid (the cell with
\* character NoChar where the screen holds none)
GridCells(scr) ==
    [p \in Grid |->
        IF Has(scr, p[1]) /\ Has(scr[p[1]], p[2]) THEN scr[p[1]][p[2]]
        ELSE Cell(NoChar, DefaultAttributes)]

\* the positions an erase command of this kind and mode is to erase:
\* mode 0 from the cursor to the end, mode 1 from the start to the cursor,
\* mode 2 all, of the line (K) or of the display (J)
Region(kind, mode) ==
    { p \in Grid :
        \/ /\ p[1] = terminalState.cursorY
           /\ \/ mode = 0 /\ p[2] >= terminalState.cursorX
              \/ mode = 1 /\ p[2] <= terminalState.cursorX
              \/ mode = 2
        \/ /\ kind = "J"
           /\ \/ mode = 0 /\ p[1] > terminalState.cursorY
              \/ mode = 1 /\ p[1] < terminalState.cursorY
              \/ mode = 2 }

RegionBlank(kind, mode) ==
    \A p \in Region(kind, mode) :
        GridCells(screen)[p] = Cell(Ch("SP"), DefaultAttributes)

\* C17: idempotent erase: with the default pen, an erase command (CSI J or
\* CSI K, mode 0, 1 or 2) on a region of blank default cells leaves every
\* cell of the screen as it was, and the same erase command applied twice
\* in a row gives the screen that applying it once gives.
C17_IdempotentErase ==
    [][ lastOp'.op = "write" =>
          /\ \A kind \in EraseKinds, mode \in EraseModes :
                ( /\ lastOp'.data = Erase(kind, mode)
                  /\ attributes = DefaultAttributes
                  /\ RegionBlank(kind, mode) )
                => GridCells(screen') = GridCells(screen)
          /\ ( /\ lastOp.op = "write"
               /\ lastOp'.data \in ErasePayloads
               /\ lastOp.data = lastOp'.data )
             => screen' = screen
      ]_vars

\* a line erased from the cursor to its end, blank already, after the
\* character that stays
C17_Witness ==
    /\ lastOp.op = "write"
    /\ lastOp.data = Erase("K", 0)
    /\ attributes = DefaultAttributes
    /\ terminalState.cursorY = 0
    /\ terminalState.cursorX = 1
    /\ screen[0][0].char = Ch("X")
    /\ screen[0][1] = Cell(Ch("SP"), DefaultAttributes)


----------------------------------------------------------------------------
(* The replay driver in a session *)

\* C18: startReplay postcondition: with replay enabled, from any reachable
\* state, startReplay leaves the screen a blank grid of the dimensions the
\* constructor gives, every cell a space, the cursor at (0,0), the replay
\* index 0 and the engine replaying.
C18_StartReplayPostcondition ==
    (lastOp.op = "startReplay" /\ lastOp.error = "none") =>
        /\ terminalState.rows = InitRows
        /\ terminalState.cols = InitCols
        /\ DOMAIN screen = 0 .. (InitRows - 1)
        /\ \A row \in DOMAIN screen :
              /\ DOMAIN screen[row] = 0 .. (InitCols - 1)
              /\ \A col \in DOMAIN screen[row] :
                    screen[row][col].char = Ch("SP")
        /\ terminalState.cursorX = 0
        /\ terminalState.cursorY = 0
        /\ replayIndex = 0
        /\ isReplaying


\* the entry stepReplay is to play
NextEntry == replayData.entries[replayIndex + 1]

\* C19: stepReplay step semantics: replaying, with index i below the
\* number of entries, stepReplay applies the payload of entry i through
\* the write path (without recording it), sets the index to i + 1 and
\* returns true if and only if i + 1 is below the number of entries; idle,
\* or with the index at the number of entries, it returns false and
\* changes nothing.
C19_StepReplay ==
    [][ lastOp'.op = "stepReplay" =>
          IF isReplaying /\ replayIndex < Len(replayData.entries)
          THEN /\ lastOp'.error = "none"
               /\ replayIndex' = replayIndex + 1
               /\ lastOp'.retMore =
                     (replayIndex + 1 < Len(replayData.entries))
               /\ sessionLog' = sessionLog
               /\ NextEntry.type = "output" =>
                     /\ terminalState' =
                           processOutput(Engine, NextEntry.data).e.ts
                     /\ screen' =
                           processOutput(Engine, NextEntry.data).e.screen
          ELSE /\ ~lastOp'.retMore
               /\ UNCHANGED <<terminalState, screen, scrollback, attributes,
                              savedCursor, config, sessionLog, replayData,
                              replayIndex, isReplaying>>
      ]_vars


\* C20: stopReplay cancellation: stopReplay makes the engine idle and the
\* replay index 0 and leaves screen, cursor, pen, scroll region, scrollback
\* and session log as they were; the engine then stays idle until the next
\* startReplay, and every stepReplay of an idle engine returns false and
\* changes nothing.
C20_StopReplay ==
    [][ /\ lastOp'.op = "stopReplay" =>
              /\ ~isReplaying'
              /\ replayIndex' = 0
              /\ UNCHANGED <<terminalState, screen, scrollback, attributes,
                             savedCursor, sessionLog>>
        /\ (~isReplaying /\ lastOp'.op # "startReplay") => ~isReplaying'
        /\ (~isReplaying /\ lastOp'.op = "stepReplay") =>
              /\ ~lastOp'.retMore
              /\ lastOp'.error = "none"
              /\ UNCHANGED <<terminalState, screen, scrollback, attributes,
                             savedCursor, config, sessionLog, replayData,
                             replayIndex, isReplaying>>
      ]_vars

\* a stepReplay after a stopReplay that cut short a replay with entries left
C20_Witness ==
    /\ lastOp.op = "stepReplay"
    /\ ~lastOp.retMore
    /\ ~isReplaying
    /\ replayIndex = 0
    /\ Len(replayData.entries) >= 1


----------------------------------------------------------------------------
(* Notifications and the scrollback *)

\* C21: update notification: each write, each resize and each clear calls
\* onUpdate exactly once, and a stepReplay calls it exactly once for the
\* entry it replays.
C21_UpdateNotification ==
    /\ lastOp.op \in {"write", "resize", "clear"} => lastOp.updates = 1
    /\ (lastOp.op = "stepReplay" /\ lastOp.data # <<>>) => lastOp.updates = 1


\* payloads that hold no line feed, index, next line or printable character
NonScrollingPayloads ==
    { ESC \o <<Ch("M")>>, Erase("J", 2), Erase("J", 0), Erase("K", 1),
      CursorUpBy(1), CursorDownBy(1), CSI \o <<Ch("H")>>,
      CSI \o Digits(2) \o SEMI \o Digits(2) \o <<Ch("r")>>,
      ESC \o <<Ch("SEVEN")>>, ESC \o <<Ch("EIGHT")>> }

HistoryPayloads == NonScrollingPayloads \cup { LineFeeds(InitRows), X }

InitHistory == Construct(MaxCap, MaxCap, TRUE, MaxOps)

NextHistory ==
    \/ \E data \in HistoryPayloads : Write(data)
    \/ \E size \in GridSizes : Resize(size[1], size[2])
    \/ Clear
    \/ StartReplay(sessionLog, TRUE)

SpecHistory == InitHistory /\ [][NextHistory]_vars

\* C22 as stated: clear leaves the scrollback (length and rows) unchanged,
\* and no erase command, reverse index, cursor movement, resize, clear or
\* startReplay adds a row to the scrollback.
C22_ScrollbackIndependence ==
    [][ /\ lastOp'.op = "clear" => RowsOf(scrollback') = RowsOf(scrollback)
        /\ ( \/ lastOp'.op \in {"resize", "clear", "startReplay"}
             \/ lastOp'.op = "write" /\ lastOp'.data \in NonScrollingPayloads )
           => Len(scrollback') <= Len(scrollback)
      ]_vars

\* C22 as amended: clear leaves the scrollback unchanged; no erase command,
\* reverse index, cursor movement, clear or startReplay adds a row to the
\* scrollback, and a resize adds rows only when it reduces the number of
\* rows.
C22_ScrollbackIndependenceAmended ==
    [][ /\ lastOp'.op = "clear" => RowsOf(scrollback') = RowsOf(scrollback)
        /\ ( \/ lastOp'.op \in {"clear", "startReplay"}
             \/ lastOp'.op = "write" /\ lastOp'.data \in NonScrollingPayloads )
           => Len(scrollback') <= Len(scrollback)
        /\ (lastOp'.op = "resize" /\ lastOp'.rows >= terminalState.rows)
           => Len(scrollback') <= Len(scrollback)
      ]_vars

\* a clear of an engine whose scrollback holds a row
C22_Witness ==
    /\ lastOp.op = "clear"
    /\ Len(scrollback) >= 1
    /\ scrollback[1].def


----------------------------------------------------------------------------
(* The clipboard *)

SP == <<Ch("SP")>>

ClipboardPayloads == { X, SP, CR \o LF, X \o CR \o LF \o Y }

GridSelections ==
    { <<0, 0, InitRows - 1, InitCols - 1>>, <<0, 0, 1, InitCols - 1>>,
      <<0, 1, 1, 1>>, <<1, 0, 1, InitCols - 1>> }

InitClipboard == Construct(MaxCap, MaxCap, TRUE, MaxOps)

NextClipboard ==
    \/ \E data \in ClipboardPayloads : Write(data)
    \/ \E sel \in GridSelections : CopySelection(sel[1], sel[2], sel[3], sel[4])

SpecClipboard == InitClipboard /\ [][NextClipboard]_vars

\* the selected rows from `row` on, each with its trailing white space
\* stripped, joined by line feeds
RECURSIVE RowsStripped(_, _)
RowsStripped(sel, row) ==
    IF row > sel[3] THEN <<>>
    ELSE TrimEnd(IF Has(screen, row)
                 THEN SelectedChars(screen[row],
                                    IF row = sel[1] THEN sel[2] ELSE 0,
                                    IF row = sel[3] THEN sel[4]
                                    ELSE terminalState.cols - 1)
                 ELSE <<>>)
         \o (IF row < sel[3] THEN <<Ch("LF")>> ELSE <<>>)
         \o RowsStripped(sel, row + 1)

\* C23: copySelection result: for a selection inside the grid,
\* copySelection returns the selected rows joined by line feeds, each with
\* its trailing white space stripped, leading white space and blank rows
\* in between kept.
C23_CopySelection ==
    (lastOp.op = "copySelection" /\ lastOp.error = "none") =>
        lastOp.text = RowsStripped(lastOp.selection, lastOp.selection[1])


----------------------------------------------------------------------------
(* Line feed and reverse line feed *)

\* the row of scr at key r, or that there is none
RowAt(scr, r) == IF Has(scr, r) THEN <<scr[r]>> ELSE <<>>

\* the rows outside the scroll region are in scr2 what they are in scr1
OutsideUnchanged(scr1, scr2) ==
    \A r \in (DOMAIN scr1 \cup DOMAIN scr2)
             \ (terminalState.scrollTop .. terminalState.scrollBottom) :
        RowAt(scr2, r) = RowAt(scr1, r)

\* C24: line-feed and scroll confinement: a line feed with
\* cursorY = scrollBottom appends the row at scrollTop to the scrollback,
\* moves the rows of [scrollTop + 1, scrollBottom] up by one, fills row
\* scrollBottom with spaces that carry the pen and leaves cursorY as it
\* is; otherwise it only increments cursorY.  The rows outside
\* [scrollTop, scrollBottom] are unchanged in both cases.
C24_LineFeed ==
    [][ (lastOp'.op = "write" /\ lastOp'.data = LF) =>
          /\ IF terminalState.cursorY = terminalState.scrollBottom
             THEN /\ scrollback' # <<>>
                  /\ scrollback'[Len(scrollback')].def
                  /\ <<scrollback'[Len(scrollback')].row>> =
                        RowAt(screen, terminalState.scrollTop)
                  /\ \A r \in (terminalState.scrollTop + 1) ..
                              terminalState.scrollBottom :
                        RowAt(screen', r - 1) = RowAt(screen, r)
                  /\ RowAt(screen', terminalState.scrollBottom) =
                        <<BlankRow(terminalState.cols, attributes)>>
                  /\ terminalState'.cursorY = terminalState.cursorY
             ELSE /\ terminalState'.cursorY = terminalState.cursorY + 1
                  /\ screen' = screen
                  /\ RowsOf(scrollback') = RowsOf(scrollback)
          /\ OutsideUnchanged(screen, screen')
      ]_vars


\* C25: half-discard trim: a scroll-up that makes the scrollback longer
\* than maxScrollback trims it in that same operation to the
\* floor(maxScrollback / 2) most recently retired rows, in order, for
\* every maxScrollback >= 1; a scroll-up that does not exceed the capacity
\* trims nothing.
C25_HalfDiscard ==
    [][ (lastOp'.op = "write" /\ lastOp'.data = LF /\ lastOp'.atBottom) =>
          IF Len(scrollback) + 1 > config.maxScrollback
          THEN /\ Len(scrollback') = config.maxScrollback \div 2
               /\ IsSuffix(RowsOf(scrollback'), hist'.retired)
          ELSE /\ Len(scrollback') = Len(scrollback) + 1
               /\ IsSuffix(RowsOf(scrollback'), hist'.retired)
      ]_vars


\* a region whose top is below its bottom, and the cursor put on its top
InvertedRegion ==
    CSI \o Digits(InitRows) \o SEMI \o Digits(1) \o <<Ch("r")>>
        \o CSI \o Digits(InitRows) \o <<Ch("H")>>

ReversePayloads ==
    { ESC \o <<Ch("M")>>, X, LF, Rendition(<<31>>),
      CSI \o Digits(2) \o SEMI \o Digits(InitRows) \o <<Ch("r")>>,
      CSI \o Digits(2) \o <<Ch("H")>>,
      InvertedRegion }

NextReverse ==
    \/ \E data \in ReversePayloads : Write(data)
    \/ \E size \in GridSizes : Resize(size[1], size[2])

SpecReverse == Init /\ [][NextReverse]_vars

\* C26: reverse line-feed: ESC M with cursorY = scrollTop shifts the rows
\* of [scrollTop, scrollBottom - 1] down by one, clears row scrollTop with
\* the pen, leaves cursorY as it is and leaves the rows outside the region
\* unchanged; otherwise it only decrements cursorY.  It never changes the
\* scrollback.
C26_ReverseLineFeed ==
    [][ (lastOp'.op = "write" /\ lastOp'.data = ESC \o <<Ch("M")>>) =>
          /\ IF terminalState.cursorY = terminalState.scrollTop
             THEN /\ \A r \in terminalState.scrollTop ..
                              (terminalState.scrollBottom - 1) :
                        RowAt(screen', r + 1) = RowAt(screen, r)
                  /\ RowAt(screen', terminalState.scrollTop) =
                        <<BlankRow(terminalState.cols, attributes)>>
                  /\ terminalState'.cursorY = terminalState.cursorY
             ELSE /\ terminalState'.cursorY = terminalState.cursorY - 1
                  /\ screen' = screen
          /\ OutsideUnchanged(screen, screen')
          /\ RowsOf(scrollback') = RowsOf(scrollback)
      ]_vars


----------------------------------------------------------------------------
(* Insertion *)

\* a row more than the screen is wide: the last character wraps
OverflowRow == FillRow \o Y

InsertPayloads ==
    { X, FillRow, OverflowRow, LF, ESC \o <<Ch("M")>>, Rendition(<<31>>),
      CSI \o Digits(2) \o SEMI \o Digits(2) \o <<Ch("r")>>,
      CSI \o Digits(1) \o SEMI \o Digits(1) \o <<Ch("r")>>,
      CSI \o Digits(InitRows) \o SEMI \o Digits(1) \o <<Ch("r")>>,
      CSI \o Digits(InitRows) \o <<Ch("H")>> }

NextInsert ==
    \/ \E data \in InsertPayloads : Write(data)
    \/ \E size \in GridSizes : Resize(size[1], size[2])

SpecInsert == Init /\ [][NextInsert]_vars

\* the rows that the screen and the scrollback hold
HeldRows(scr, sb) ==
    { scr[r] : r \in DOMAIN scr } \cup
    { sb[k].row : k \in { j \in DOMAIN sb : sb[j].def } }

HoldsChar(row, char) == \E c \in DOMAIN row : row[c].char = char

FullOf(row, cols, char) ==
    \A c \in 0 .. (cols - 1) : Has(row, c) /\ row[c].char = char

\* C27: insertion and deferred wrap: a printable character inserted with
\* cursorX >= cols and wraparound enabled goes to column 0 after a line
\* feed (a scroll if cursorY = scrollBottom); with wraparound disabled it
\* overwrites cell cols - 1.  In every case the character is stored at an
\* existing cell with a copy of the pen and cursorX is then one past that
\* cell, so of cols + 1 printable characters written from column 0 none is
\* lost.
C27_Insertion ==
    [][ /\ (lastOp'.op = "write" /\ lastOp'.data = X) =>
             /\ lastOp'.error = "none"
             /\ terminalState'.cursorY \in 0 .. (terminalState'.rows - 1)
             /\ terminalState'.cursorX \in 1 .. terminalState'.cols
             /\ Has(screen', terminalState'.cursorY)
             /\ Has(screen'[terminalState'.cursorY],
                    terminalState'.cursorX - 1)
             /\ screen'[terminalState'.cursorY][terminalState'.cursorX - 1]
                   = Cell(Ch("X"), attributes)
             /\ IF terminalState.cursorX < terminalState.cols
                THEN /\ terminalState'.cursorX = terminalState.cursorX + 1
                     /\ terminalState'.cursorY = terminalState.cursorY
                ELSE IF terminalState.wraparound
                THEN /\ terminalState'.cursorX = 1
                     /\ IF terminalState.cursorY = terminalState.scrollBottom
                        THEN /\ terminalState'.cursorY = terminalState.cursorY
                             /\ hist'.retired # hist.retired
                        ELSE /\ terminalState'.cursorY =
                                    terminalState.cursorY + 1
                             /\ hist'.retired = hist.retired
                ELSE /\ terminalState'.cursorX = terminalState.cols
                     /\ terminalState'.cursorY = terminalState.cursorY
        /\ ( /\ lastOp'.op = "write" /\ lastOp'.data = OverflowRow
             /\ terminalState.cursorX = 0
             /\ terminalState.cols = InitCols
             /\ \A row \in HeldRows(screen, scrollback) :
                   ~HoldsChar(row, Ch("X")) ) =>
             /\ lastOp'.error = "none"
             /\ \E row \in HeldRows(screen', scrollback') :
                   FullOf(row, InitCols, Ch("X"))
             /\ Has(screen', terminalState'.cursorY)
             /\ Has(screen'[terminalState'.cursorY], 0)
             /\ screen'[terminalState'.cursorY][0].char = Ch("Y")
      ]_vars


----------------------------------------------------------------------------
(* The pen *)

RedX == Rendition(<<31>>) \o X

\* the writes that change the pen and nothing else
PenChanges ==
    { Rendition(<<1>>), Rendition(<<44>>), Rendition(<<0>>),
      ESC \o <<Ch("EIGHT")>>, CSI \o <<Ch("u")>> }

InkPayloads ==
    PenChanges \cup
    { X, RedX, LF, LineFeeds(InitRows), Erase("K", 2),
      ESC \o <<Ch("SEVEN")>> }

NextInk ==
    \/ \E data \in InkPayloads : Write(data)
    \/ \E size \in GridSizes : Resize(size[1], size[2])

SpecInk == Init /\ [][NextInk]_vars

\* every cell of row r of scr, in the columns of S, carries the attributes a
RowCarries(scr, r, S, a) ==
    /\ Has(scr, r)
    /\ \A c \in S : Has(scr[r], c) /\ scr[r][c].attributes = a

\* C28: pen captured by value: a cell written by an insertion, an erase,
\* the clearing of a scroll or the padding of a resize carries the
\* attributes the pen has at that moment, and a later change of the pen
\* (rendition codes, restore cursor) leaves every cell of the screen, every
\* cell of the scrollback and the saved-cursor snapshot as they are.
C28_PenByValue ==
    [][ /\ (lastOp'.op = "write" /\ lastOp'.data \in PenChanges) =>
             /\ screen' = screen
             /\ RowsOf(scrollback') = RowsOf(scrollback)
             /\ savedCursor' = savedCursor
        /\ (lastOp'.op = "write" /\ lastOp'.data \in {X, RedX}
                /\ lastOp'.error = "none") =>
             RowCarries(screen', terminalState'.cursorY,
                        {terminalState'.cursorX - 1}, attributes')
        /\ (lastOp'.op = "write" /\ lastOp'.data = Erase("K", 2)) =>
             RowCarries(screen', terminalState.cursorY,
                        0 .. (terminalState.cols - 1), attributes)
        /\ (lastOp'.op = "write" /\ lastOp'.data = LF /\ lastOp'.atBottom) =>
             RowCarries(screen', terminalState.scrollBottom,
                        0 .. (terminalState.cols - 1), attributes)
        /\ (lastOp'.op = "resize" /\ lastOp'.error = "none") =>
             /\ \A r \in terminalState.rows .. (lastOp'.rows - 1) :
                   RowCarries(screen', r, 0 .. (lastOp'.cols - 1), attributes)
             /\ \A r \in 0 .. (Min(terminalState.rows, lastOp'.rows) - 1) :
                   RowCarries(screen', r,
                              terminalState.cols .. (lastOp'.cols - 1),
                              attributes)
      ]_vars

\* the pen was changed after a red X was written: a cell of the screen, a
\* cell of the scrollback and the snapshot still are as they were written
C28_Witness ==
    /\ lastOp.op = "write" /\ lastOp.data \in PenChanges
    /\ \E r \in DOMAIN screen : \E c \in DOMAIN screen[r] :
          /\ screen[r][c].char = Ch("X")
          /\ screen[r][c].attributes.foreground = 1
          /\ screen[r][c].attributes # attributes


----------------------------------------------------------------------------
(* The scroll region command *)

\* CSI top ; bottom r
ScrollRegion(top, bottom) ==
    CSI \o Digits(top) \o SEMI \o Digits(bottom) \o <<Ch("r")>>

\* zero is written and parsed as a parameter that takes its default
RegionParams == 0 .. (InitRows + 1)

RegionPayloads ==
    { ScrollRegion(t, b) : t \in RegionParams, b \in RegionParams }
    \cup { CSI \o <<Ch("r")>>, FillRow }

NextRegion ==
    \/ \E data \in RegionPayloads : Write(data)
    \/ \E size \in GridSizes : Resize(size[1], size[2])

SpecRegion == Init /\ [][NextRegion]_vars

\* the zero-based row of a one-based parameter, inside the grid
ClampedRow(param, rows) == Max(0, Min(rows - 1, param - 1))

\* C29: set scroll region: CSI t;b r, a missing or zero t standing for 1
\* and a missing or zero b for rows, sets scrollTop to t - 1 and
\* scrollBottom to b - 1, each clamped into [0, rows - 1], whatever the
\* parameters are (t > rows included), and puts the cursor at (0,0).
C29_SetScrollRegion ==
    /\ \A t \in RegionParams, b \in RegionParams :
          (lastOp.op = "write" /\ lastOp.data = ScrollRegion(t, b)) =>
             /\ terminalState.scrollTop =
                   ClampedRow(IF t = 0 THEN 1 ELSE t, terminalState.rows)
             /\ terminalState.scrollBottom =
                   ClampedRow(IF b = 0 THEN terminalState.rows ELSE b,
                              terminalState.rows)
             /\ terminalState.cursorX = 0
             /\ terminalState.cursorY = 0
    /\ (lastOp.op = "write" /\ lastOp.data = CSI \o <<Ch("r")>>) =>
          /\ terminalState.scrollTop = 0
          /\ terminalState.scrollBottom = terminalState.rows - 1
          /\ terminalState.cursorX = 0
          /\ terminalState.cursorY = 0


----------------------------------------------------------------------------
(* Save and restore cursor *)

\* save the cursor, then reset the pen and return to the first column
SaveThenReset == ESC \o <<Ch("SEVEN")>> \o Rendition(<<0>>) \o CR

SavePayloads == { ESC \o <<Ch("SEVEN")>>, CSI \o <<Ch("s")>> }

RestorePayloads == { ESC \o <<Ch("EIGHT")>>, CSI \o <<Ch("u")>> }

SavedPayloads ==
    SavePayloads \cup RestorePayloads \cup
    { SaveThenReset, X, RedX, LF, Rendition(<<1>>),
      CSI \o Digits(InitRows) \o SEMI \o Digits(InitCols) \o <<Ch("H")>> }

NextSaved ==
    \/ \E data \in SavedPayloads : Write(data)
    \/ \E size \in GridSizes : Resize(size[1], size[2])

SpecSaved == Init /\ [][NextSaved]_vars

\* the step leaves the cursor, the pen, the snapshot and the screen as e
\* has them
OutcomeIs(e) ==
    /\ terminalState' = e.ts
    /\ attributes' = e.attributes
    /\ savedCursor' = e.savedCursor
    /\ screen' = e.screen

\* C30: save/restore pair equivalence: from any state ESC 7 and CSI s give
\* the same resulting state, and ESC 8 and CSI u give the same resulting
\* state (cursor position, pen, saved snapshot, screen).
C30_SaveRestorePairs ==
    [][ lastOp'.op = "write" =>
          /\ lastOp'.data = ESC \o <<Ch("SEVEN")>> =>
                OutcomeIs(processOutput(Engine, CSI \o <<Ch("s")>>).e)
          /\ lastOp'.data = CSI \o <<Ch("s")>> =>
                OutcomeIs(processOutput(Engine, ESC \o <<Ch("SEVEN")>>).e)
          /\ lastOp'.data = ESC \o <<Ch("EIGHT")>> =>
                OutcomeIs(processOutput(Engine, CSI \o <<Ch("u")>>).e)
          /\ lastOp'.data = CSI \o <<Ch("u")>> =>
                OutcomeIs(processOutput(Engine, ESC \o <<Ch("EIGHT")>>).e)
      ]_vars

\* a restore brought back a red pen and a column the cursor had left
C30_Witness ==
    /\ lastOp.op = "write" /\ lastOp.data \in RestorePayloads
    /\ savedCursor.set
    /\ terminalState.cursorX = savedCursor.x /\ savedCursor.x > 0
    /\ attributes = savedCursor.attributes
    /\ attributes.foreground = 1


\* C31: saved cursor lifecycle: a restore with no save before it changes
\* nothing; a restore after a save sets the cursor position and the pen
\* to the snapshot saved last and keeps the snapshot, so a second restore
\* right after it changes nothing; a save replaces the snapshot by the
\* cursor position and the pen of that moment.
C31_SavedCursorLifecycle ==
    [][ lastOp'.op = "write" =>
          /\ (lastOp'.data \in RestorePayloads /\ ~savedCursor.set) =>
                /\ terminalState' = terminalState
                /\ attributes' = attributes
                /\ savedCursor' = savedCursor
                /\ screen' = screen
                /\ scrollback' = scrollback
          /\ (lastOp'.data \in RestorePayloads /\ savedCursor.set) =>
                /\ terminalState' =
                      [terminalState EXCEPT !.cursorX = savedCursor.x,
                                            !.cursorY = savedCursor.y]
                /\ attributes' = savedCursor.attributes
                /\ savedCursor' = savedCursor
                /\ screen' = screen
          /\ ( /\ lastOp'.data \in RestorePayloads
               /\ lastOp.op = "write" /\ lastOp.data \in RestorePayloads ) =>
                /\ terminalState' = terminalState
                /\ attributes' = attributes
                /\ savedCursor' = savedCursor
          /\ lastOp'.data \in SavePayloads =>
                /\ savedCursor'.set
                /\ savedCursor'.x = terminalState.cursorX
                /\ savedCursor'.y = terminalState.cursorY
                /\ savedCursor'.attributes = attributes
                /\ terminalState' = terminalState
                /\ attributes' = attributes
      ]_vars

\* a restore brought the cursor back to a row below the first one
C31_Witness ==
    /\ lastOp.op = "write" /\ lastOp.data \in RestorePayloads
    /\ savedCursor.set
    /\ savedCursor.y > 0
    /\ terminalState.cursorY = savedCursor.y
    /\ attributes = savedCursor.attributes


----------------------------------------------------------------------------
(* Resize *)

\* the rows of scr[from .. to] as scrollback entries, an undefined row as
\* the entry of no row
RECURSIVE ExcessRows(_, _, _)
ExcessRows(scr, from, to) ==
    IF from > to THEN <<>>
    ELSE <<IF Has(scr, from) THEN Retired(scr[from], NoAlias)
           ELSE UndefinedRow>> \o ExcessRows(scr, from + 1, to)

\* C32: resize shrink: resize(newRows, newCols) with
\* 1 <= newRows < rows appends the rows newRows .. rows - 1 to the
\* scrollback from top to bottom, keeps the cells of the retained rows in
\* the columns below min(cols, newCols), and leaves the cursor inside the
\* new bounds.
C32_ResizeShrink ==
    [][ ( /\ lastOp'.op = "resize"
          /\ 1 <= lastOp'.rows /\ lastOp'.rows < terminalState.rows ) =>
          /\ lastOp'.error = "none"
          /\ RowsOf(scrollback') =
                RowsOf(scrollback) \o
                ExcessRows(screen, lastOp'.rows, terminalState.rows - 1)
          /\ \A r \in 0 .. (lastOp'.rows - 1) :
                /\ Has(screen, r) /\ Has(screen', r)
                /\ \A c \in 0 .. (Min(terminalState.cols, lastOp'.cols) - 1) :
                      /\ Has(screen[r], c) /\ Has(screen'[r], c)
                      /\ screen'[r][c] = screen[r][c]
          /\ terminalState'.rows = lastOp'.rows
          /\ terminalState'.cols = lastOp'.cols
          /\ terminalState'.cursorX \in 0 .. (lastOp'.cols - 1)
          /\ terminalState'.cursorY \in 0 .. (lastOp'.rows - 1)
      ]_vars


\* every cell of row r of scr in the columns of S is the given cell
RowHolds(scr, r, S, cell) ==
    /\ Has(scr, r)
    /\ \A c \in S : Has(scr[r], c) /\ scr[r][c] = cell

\* C33: resize growth padding: every cell a resize adds, in the new rows
\* when the row count grows and in the new columns when the column count
\* grows, is a space with the default attributes (all flags false,
\* foreground 7, background 0), whatever the pen is.
C33_GrowthPadding ==
    [][ (lastOp'.op = "resize" /\ lastOp'.error = "none") =>
          /\ \A r \in terminalState.rows .. (lastOp'.rows - 1) :
                RowHolds(screen', r, 0 .. (lastOp'.cols - 1),
                         Cell(Ch("SP"), DefaultAttributes))
          /\ \A r \in 0 .. (Min(terminalState.rows, lastOp'.rows) - 1) :
                RowHolds(screen', r,
                         terminalState.cols .. (lastOp'.cols - 1),
                         Cell(Ch("SP"), DefaultAttributes))
      ]_vars


----------------------------------------------------------------------------
(* The lengths of the sequences *)

\* the index at which turn k of the loop of the last write started
TurnStart(k) == (<<0>> \o lastOp.trace)[k]

\* turn k started at an ESC that a byte follows
EscapeTurn(k) ==
    /\ At(Decode(lastOp.data), TurnStart(k)) = Ch("ESC")
    /\ TurnStart(k) + 1 < Len(Decode(lastOp.data))

\* the byte after the ESC of turn k
Introducer(k) == At(Decode(lastOp.data), TurnStart(k) + 1)

\* the bytes the sequence of turn k consumed
Consumed(k) ==
    Min(lastOp.trace[k], Len(Decode(lastOp.data))) - TurnStart(k)

\* C34: escape lengths: an ESC followed by '(' consumes exactly 2 bytes in
\* all, and an ESC followed by a byte other than '[', ']' and '(' consumes
\* exactly 2 bytes in all; the byte after those 2 starts the next turn of
\* the loop.
C34_EscapeLengths ==
    lastOp.op = "write" =>
       \A k \in 1 .. Len(lastOp.trace) :
          EscapeTurn(k) =>
             /\ Introducer(k) = Ch("LPAREN") =>
                   Consumed(k) = 2
             /\ Introducer(k) \notin {Ch("LBRACK"), Ch("RBRACK"), Ch("LPAREN")}
                   => Consumed(k) = 2

\* C34 amended: an ESC followed by '(' consumes 3 bytes in all, the ESC,
\* the '(' and the charset identifier after it (the rest of the text if
\* the identifier is missing), and an ESC followed by a byte other than
\* '[', ']' and '(' consumes exactly 2 bytes in all; the byte after the
\* consumed ones starts the next turn of the loop.
C34_EscapeLengthsAmended ==
    lastOp.op = "write" =>
       \A k \in 1 .. Len(lastOp.trace) :
          EscapeTurn(k) =>
             /\ Introducer(k) = Ch("LPAREN") =>
                   Consumed(k) =
                      Min(3, Len(Decode(lastOp.data)) - TurnStart(k))
             /\ Introducer(k) \notin {Ch("LBRACK"), Ch("RBRACK"), Ch("LPAREN")}
                   => Consumed(k) = 2

\* a charset selection whose identifier is skipped, then a simple escape,
\* then a character
C34_Witness ==
    /\ lastOp.op = "write"
    /\ lastOp.data = <<Ch("ESC"), Ch("LPAREN"), Ch("SEVEN"), Ch("LF")>>
    /\ lastOp.trace = <<3, 4>>
    /\ terminalState.cursorX = 0
    /\ terminalState.cursorY = 1


----------------------------------------------------------------------------
(* OSC sequences *)

\* what an OSC sequence holds between ESC ] and its terminator: a title,
\* an ESC that no backslash follows
OscBodies == { <<Ch("ZERO")>> \o SEMI \o X, ESC \o X }

\* BEL and ESC-backslash
OscTerminators == { <<Ch("BEL")>>, <<Ch("ESC"), Ch("BACKSLASH")>> }

\* terminated sequences, each alone and with a byte after it
TerminatedOsc == { OSC \o b \o t : b \in OscBodies, t \in OscTerminators }

OscThenByte == { o \o c : o \in TerminatedOsc, c \in {X, LF} }

UnterminatedOsc == { OSC \o b : b \in OscBodies } \cup { OSC \o ESC }

OscPayloads ==
    TerminatedOsc \cup OscThenByte \cup UnterminatedOsc
    \cup { X, LF, RedX }

NextOsc == \E data \in OscPayloads : Write(data)

SpecOsc == Init /\ [][NextOsc]_vars

\* the step changes no cell, cursor position, pen, snapshot or scrollback
NoEffect ==
    /\ terminalState' = terminalState
    /\ screen' = screen
    /\ attributes' = attributes
    /\ savedCursor' = savedCursor
    /\ RowsOf(scrollback') = RowsOf(scrollback)

\* C35: OSC skipping: an OSC sequence is consumed with its terminator (BEL
\* or ESC-backslash) and changes no cell, cursor position, pen or
\* scrollback; the bytes after the terminator are processed as they are
\* without the sequence; an OSC that is not terminated consumes the rest
\* of the text without effect.
C35_OscSkipping ==
    [][ lastOp'.op = "write" =>
          /\ lastOp'.data \in TerminatedOsc \cup UnterminatedOsc =>
                /\ NoEffect
                /\ lastOp'.trace = <<Len(lastOp'.data)>>
                /\ lastOp'.error = "none"
          /\ \A o \in TerminatedOsc, c \in {X, LF} :
                lastOp'.data = o \o c =>
                   /\ lastOp'.trace = <<Len(o), Len(o) + 1>>
                   /\ OutcomeIs(processOutput(Engine, c).e)
                   /\ RowsOf(scrollback') =
                         RowsOf(processOutput(Engine, c).e.scrollback)
      ]_vars

\* an OSC with a title, ended by ESC-backslash, was skipped on a screen
\* that holds a character, and the X after it was written
C35_Witness ==
    /\ lastOp.op = "write"
    /\ lastOp.data =
          OSC \o <<Ch("ZERO")>> \o SEMI \o X
              \o <<Ch("ESC"), Ch("BACKSLASH")>> \o X
    /\ lastOp.error = "none"
    /\ terminalState.cursorX = 2
    /\ Has(screen, 0) /\ Has(screen[0], 1) /\ screen[0][1].char = Ch("X")


----------------------------------------------------------------------------
(* The rows of the scrollback *)

\* C36: scrollback rows are immutable: a row that was appended to the
\* scrollback keeps the cells it had when it was appended, whatever is
\* written, resized or cleared afterwards, and no array that is a row of
\* the scrollback is a row of the screen as well, for every scroll region
\* that CSI r can set.
C36_ScrollbackImmutable ==
    /\ \A k \in DOMAIN scrollback : scrollback[k].at = NoAlias
    /\ IsSuffix(RowsOf(scrollback), hist.retired)


----------------------------------------------------------------------------
(* The end of a replay *)

\* C37: replay does not end by itself: only stopReplay takes the engine
\* out of the replaying state; after stepReplay has consumed the last
\* entry and returned false the engine is still replaying, and the writes
\* of a replaying engine are not recorded in the session log.
C37_ReplayEndsByStop ==
    [][ /\ (isReplaying /\ ~isReplaying') => lastOp'.op = "stopReplay"
        /\ (isReplaying /\ lastOp'.op = "stepReplay") => isReplaying'
        /\ (isReplaying /\ lastOp'.op = "write") =>
              /\ isReplaying'
              /\ sessionLog' = sessionLog
              /\ ~lastOp'.logged
      ]_vars

\* a live write to an engine whose replay has consumed every entry
C37_Witness ==
    /\ lastOp.op = "write"
    /\ isReplaying
    /\ Len(replayData.entries) >= 1
    /\ replayIndex = Len(replayData.entries)
    /\ ~lastOp.logged


----------------------------------------------------------------------------
(* The direction of the vertical moves *)

UpMoves == { CSI \o <<Ch("A")>>, CursorUpBy(1), CursorUpBy(2) }

DownMoves == { CSI \o <<Ch("B")>>, CursorDownBy(1), CursorDownBy(2) }

\* C38: direction of vertical movement: cursor-up (CSI A) never leaves
\* cursorY larger than it was and cursor-down (CSI B) never leaves it
\* smaller, also when the cursor is outside the scroll region.
C38_MoveDirection ==
    [][ lastOp'.op = "write" =>
          /\ lastOp'.data \in UpMoves =>
                terminalState'.cursorY <= terminalState.cursorY
          /\ lastOp'.data \in DownMoves =>
                terminalState'.cursorY >= terminalState.cursorY
      ]_vars


\* C38 amended: cursor-up never leaves cursorY larger than it was when the
\* cursor is at or below scrollTop, and cursor-down never leaves it
\* smaller when the cursor is at or above scrollBottom; a cursor above
\* scrollTop is moved down to scrollTop by cursor-up and a cursor below
\* scrollBottom is moved up to scrollBottom by cursor-down.
C38_MoveDirectionAmended ==
    [][ lastOp'.op = "write" =>
          /\ lastOp'.data \in UpMoves =>
                IF terminalState.cursorY >= terminalState.scrollTop
                THEN /\ terminalState'.cursorY <= terminalState.cursorY
                     /\ terminalState'.cursorY >= terminalState.scrollTop
                ELSE terminalState'.cursorY = terminalState.scrollTop
          /\ lastOp'.data \in DownMoves =>
                IF terminalState.cursorY <= terminalState.scrollBottom
                THEN /\ terminalState'.cursorY >= terminalState.cursorY
                     /\ terminalState'.cursorY <= terminalState.scrollBottom
                ELSE terminalState'.cursorY = terminalState.scrollBottom
      ]_vars

\* cursor-up by one in the full region took the cursor from the last row
\* to the row above it
C38_Witness ==
    /\ lastOp.op = "write"
    /\ lastOp.data = CSI \o <<Ch("A")>>
    /\ terminalState.scrollTop = 0
    /\ terminalState.rows = InitRows
    /\ terminalState.cursorY = InitRows - 2

----------------------------------------------------------------------------
(* One write against the same bytes in two writes *)

\* the two bytes of U+00E9 in UTF-8
EAcute == <<195, 169>>

\* whole units of input: a printable character, a line feed, a complete
\* CSI sequence and a two-byte character
ChunkUnits == { X, LF, Rendition(<<31>>), EAcute }

\* the ways an input is cut in two outside every escape sequence: between
\* two whole units, or between the two bytes of a character
ChunkPairs ==
    (ChunkUnits \X ChunkUnits) \cup { <<SubSeq(EAcute, 1, 1), SubSeq(EAcute, 2, 2)>> }

NextChunk == \E pair \in ChunkPairs : Write(pair[1] \o pair[2])

SpecChunk == Init /\ [][NextChunk]_vars

\* the step leaves the cursor and the scroll region, the pen, the snapshot,
\* the screen and the scrollback as e has them
SameDisplayAs(e) ==
    /\ OutcomeIs(e)
    /\ RowsOf(scrollback') = RowsOf(e.scrollback)

\* C39: chunking independence: for an input s = s1 + s2 cut outside every
\* escape sequence, write(s1) followed by write(s2) gives the same screen,
\* cursor, pen, scroll region, saved cursor and scrollback as the single
\* write(s).
C39_ChunkingIndependence ==
    [][ lastOp'.op = "write" =>
          \A pair \in ChunkPairs :
             lastOp'.data = pair[1] \o pair[2] =>
                SameDisplayAs(
                   processOutput(processOutput(Engine, pair[1]).e, pair[2]).e)
      ]_vars

----------------------------------------------------------------------------
(* What an erase command leaves alone *)

\* erase commands with a mode the switch statements have no case for
UnknownErase == { Erase(kind, 3) : kind \in EraseKinds }

NextFrame == \E data \in ErasePayloads \cup UnknownErase \cup OtherPayloads : Write(data)

SpecFrame == Init /\ [][NextFrame]_vars

\* the cell the screen holds at row r and column c, if it holds one
CellAt(scr, r, c) ==
    IF Has(scr, r) /\ Has(scr[r], c) THEN <<scr[r][c]>> ELSE <<>>

\* the positions of the grid and those one row or one column beyond it
Around == (0 .. terminalState.rows) \X (0 .. terminalState.cols)

\* the step changes no cell outside S
OnlyWithin(S) ==
    \A p \in Around \ S : CellAt(screen', p[1], p[2]) = CellAt(screen, p[1], p[2])

CursorStays ==
    /\ terminalState'.cursorX = terminalState.cursorX
    /\ terminalState'.cursorY = terminalState.cursorY

\* C40: cursor effect of erase: CSI K (modes 0, 1, 2) and CSI J modes 0 and 1
\* leave the cursor where it was and change only cells in the range the mode
\* names; CSI 2 J clears every row and moves the cursor to (0,0); an erase
\* with an unrecognised mode changes nothing.
C40_EraseFrame ==
    [][ lastOp'.op = "write" =>
          /\ \A kind \in EraseKinds, mode \in EraseModes :
                ( lastOp'.data = Erase(kind, mode) /\ <<kind, mode>> # <<"J", 2>> )
                => CursorStays /\ OnlyWithin(Region(kind, mode))
          /\ lastOp'.data = Erase("J", 2) =>
                /\ \A p \in Grid :
                      CellAt(screen', p[1], p[2]) = <<Cell(Ch("SP"), attributes)>>
                /\ terminalState'.cursorX = 0
                /\ terminalState'.cursorY = 0
          /\ lastOp'.data \in UnknownErase =>
                UNCHANGED <<terminalState, screen, scrollback, attributes,
                            savedCursor>>
      ]_vars

====
